---- MODULE Spec2Model ----
(***************************************************************************)
(* Formula 1 batch pipeline: a file system holding data/raw and            *)
(* data/processed, the stage functions of src/src/*.py as operators over   *)
(* it, a caller that invokes the stages in the order main() lists them,    *)
(* and the loading of main.py itself (its import statements).              *)
(*                                                                         *)
(* A CSV file is a table [cols, rows]: cols is the header, rows the        *)
(* sequence of records in file order.  A missing cell (pandas NA) is NA.   *)
(***************************************************************************)
EXTENDS Integers, Sequences, FiniteSets, TLC

VARIABLES
    fs,          \* [dirs, raw, processed]: existing directories and the files of the two data folders
    kaggle,      \* the dataset folder kagglehub.dataset_download returns (file name -> table)
    pc,          \* position of the caller in the stage sequence of main()
    i,           \* loop index of main's race_tables loop
    runs,        \* number of pipeline runs started
    recent_race_ids, \* main's local variable recent_race_ids
    ret,         \* observation of the last call: function, arguments, returned value
    mainStatus,  \* loading of main.py: not_started, importing, ImportError, SyntaxError, running
    mainPc       \* index of the import statement main.py is executing

vars == <<fs, kaggle, pc, i, runs, recent_race_ids, ret, mainStatus, mainPc>>

----------------------------------------------------------------------------
\* Bounds of the model

\* a pipeline may be run this many times on the same folders
MaxRuns == 2

----------------------------------------------------------------------------
\* Tables

NA == -1

Tbl(cols, rows) == [cols |-> cols, rows |-> rows]

NoTable == Tbl(<<>>, <<>>)

\* df[c].unique() as a set
Col(t, c) == {t.rows[k][c] : k \in 1..Len(t.rows)}

HasCol(t, c) == \E k \in 1..Len(t.cols) : t.cols[k] = c

\* df[df[c].isin(ids)]: a boolean mask keeps the selected rows in file order
RowsIsin(t, c, ids) ==
    LET Keep(r) == r[c] \in ids
    IN  [t EXCEPT !.rows = SelectSeq(t.rows, Keep)]

\* between() with the upper end left out
RowsBetween_exclusive(t, c, lo, hi) ==
    LET Keep(r) == lo <= r[c] /\ r[c] < hi
    IN  [t EXCEPT !.rows = SelectSeq(t.rows, Keep)]

\* df[df[c].between(lo, hi)]: both ends inclusive
RowsBetween(t, c, lo, hi) ==
    LET Keep(r) == lo <= r[c] /\ r[c] <= hi
    IN  [t EXCEPT !.rows = SelectSeq(t.rows, Keep)]

----------------------------------------------------------------------------
\* The Kaggle dataset "rohanrao/formula-1-world-championship-1950-2020":
\* small instances of its CSV files, with the columns the stages read.

RacesCols == <<"raceId", "year", "circuitId", "name">>
CircuitsCols == <<"circuitId", "name", "alt", "url">>
ResultsCols == <<"resultId", "raceId", "driverId", "constructorId", "position",
                 "positionOrder", "points", "laps", "statusId">>

Race(id, y, c, n) == [raceId |-> id, year |-> y, circuitId |-> c, name |-> n]
Circuit(id, n, a) == [circuitId |-> id, name |-> n, alt |-> a, url |-> "u"]
Result(id, r, d, c, p, po, pts, l, s) ==
    [resultId |-> id, raceId |-> r, driverId |-> d, constructorId |-> c, position |-> p,
     positionOrder |-> po, points |-> pts, laps |-> l, statusId |-> s]

\* status texts of status.csv, as the sequences of their characters
Finished == <<"F", "i", "n", "i", "s", "h", "e", "d">>
Accident == <<"A", "c", "c", "i", "d", "e", "n", "t">>
Engine == <<"E", "n", "g", "i", "n", "e">>
PlusOneLap == <<"+", "1", " ", "L", "a", "p">>
Retired == <<"R", "e", "t", "i", "r", "e", "d">>
CollisionDamage == <<"C", "o", "l", "l", "i", "s", "i", "o", "n", " ", "d", "a", "m", "a", "g", "e">>

CommonFiles ==
    ("circuits.csv" :> Tbl(CircuitsCols,
        <<Circuit(1, "Albert Park", 10), Circuit(2, "Sepang", 18), Circuit(3, "Sakhir", 7)>>))
 @@ ("results.csv" :> Tbl(ResultsCols,
        <<Result(1, 1, 1, 1, 1, 1, 25, 50, 1),
          Result(2, 2, 1, 1, 1, 1, 25, 60, 1),
          Result(3, 2, 2, 1, NA, 2, 0, 10, 3),
          Result(4, 3, 2, 2, 2, 2, 18, 59, 11),
          Result(5, 3, 1, 1, NA, 3, 0, 30, 5),
          Result(6, 3, 4, 2, NA, 4, 0, 5, 31),
          Result(7, 1, 2, 1, 2, 2, 18, 50, 1)>>))
 @@ ("constructors.csv" :> Tbl(<<"constructorId", "name">>,
        <<[constructorId |-> 1, name |-> "Mercedes"],
          [constructorId |-> 2, name |-> "Red Bull"],
          [constructorId |-> 3, name |-> "Minardi"]>>))
 @@ ("drivers.csv" :> Tbl(<<"driverId", "surname">>,
        <<[driverId |-> 1, surname |-> "Hamilton"],
          [driverId |-> 2, surname |-> "Verstappen"],
          [driverId |-> 3, surname |-> "Fangio"],
          [driverId |-> 4, surname |-> "Alonso"]>>))
 @@ ("seasons.csv" :> Tbl(<<"year", "url">>,
        <<[year |-> 2018, url |-> "u"], [year |-> 2019, url |-> "u"],
          [year |-> 2020, url |-> "u"], [year |-> 2021, url |-> "u"]>>))
 @@ ("status.csv" :> Tbl(<<"statusId", "status">>,
        <<[statusId |-> 1, status |-> Finished], [statusId |-> 3, status |-> Accident],
          [statusId |-> 5, status |-> Engine], [statusId |-> 11, status |-> PlusOneLap],
          [statusId |-> 31, status |-> Retired], [statusId |-> 130, status |-> CollisionDamage]>>))
 @@ ("constructor_standings.csv" :> Tbl(<<"constructorStandingsId", "raceId", "constructorId", "points">>,
        <<[constructorStandingsId |-> 1, raceId |-> 2, constructorId |-> 1, points |-> 25]>>))
 @@ ("driver_standings.csv" :> Tbl(<<"driverStandingsId", "raceId", "driverId", "points">>,
        <<[driverStandingsId |-> 1, raceId |-> 1, driverId |-> 3, points |-> 0],
          [driverStandingsId |-> 2, raceId |-> 2, driverId |-> 1, points |-> 25]>>))
 @@ ("lap_times.csv" :> Tbl(<<"raceId", "driverId", "lap", "position">>,
        <<[raceId |-> 2, driverId |-> 1, lap |-> 1, position |-> 1]>>))
 @@ ("pit_stops.csv" :> Tbl(<<"raceId", "driverId", "stop", "lap">>,
        <<[raceId |-> 3, driverId |-> 2, stop |-> 1, lap |-> 20]>>))
 @@ ("qualifying.csv" :> Tbl(<<"qualifyId", "raceId", "driverId", "constructorId", "position">>,
        <<[qualifyId |-> 1, raceId |-> 1, driverId |-> 1, constructorId |-> 1, position |-> 1],
          [qualifyId |-> 2, raceId |-> 2, driverId |-> 1, constructorId |-> 1, position |-> 1],
          [qualifyId |-> 3, raceId |-> 3, driverId |-> 2, constructorId |-> 2, position |-> 2]>>))

SprintFile ==
    "sprint_results.csv" :> Tbl(<<"resultId", "raceId", "driverId", "constructorId", "position",
                                  "points", "statusId">>,
        <<[resultId |-> 1, raceId |-> 3, driverId |-> 1, constructorId |-> 1, position |-> 1,
           points |-> 8, statusId |-> 1]>>)

\* every result's constructor also has a constructor_results row
ConstructorResultsFull ==
    "constructor_results.csv" :> Tbl(<<"constructorResultsId", "raceId", "constructorId", "points">>,
        <<[constructorResultsId |-> 1, raceId |-> 1, constructorId |-> 1, points |-> 25],
          [constructorResultsId |-> 2, raceId |-> 2, constructorId |-> 1, points |-> 25],
          [constructorResultsId |-> 3, raceId |-> 3, constructorId |-> 2, points |-> 18]>>)

\* constructor 2 scored in race 3 (results.csv) but has no constructor_results row
ConstructorResultsPartial ==
    "constructor_results.csv" :> Tbl(<<"constructorResultsId", "raceId", "constructorId", "points">>,
        <<[constructorResultsId |-> 1, raceId |-> 1, constructorId |-> 1, points |-> 25],
          [constructorResultsId |-> 2, raceId |-> 2, constructorId |-> 1, points |-> 25]>>)

\* races in year order; circuit 2 hosts two races, circuit 3 none
DatasetA ==
    ("races.csv" :> Tbl(RacesCols,
        <<Race(1, 2019, 1, "GP 1"), Race(2, 2020, 2, "GP 2"), Race(3, 2021, 2, "GP 3")>>))
 @@ ConstructorResultsFull @@ SprintFile @@ CommonFiles

\* races out of year order, a year occurring twice, and no sprint_results.csv
\* (the file is absent from the versions of the dataset before 2021)
DatasetB ==
    ("races.csv" :> Tbl(RacesCols,
        <<Race(3, 2021, 3, "GP 3"), Race(1, 2019, 1, "GP 1"), Race(2, 2021, 2, "GP 2")>>))
 @@ ConstructorResultsPartial @@ CommonFiles

Datasets == {DatasetA, DatasetB}

\* values a caller passes as start_year / end_year; main passes 2020 and 2025
YearArgs == {2019, 2020, 2021, 2025}

----------------------------------------------------------------------------
\* File system

Parents(d) ==
    CASE d = "raw" -> {"root", "data", "raw"}
      [] d = "processed" -> {"root", "data", "processed"}
      [] d = "data" -> {"root", "data"}
      [] OTHER -> {"root"}

\* Path.mkdir(parents = True, exist_ok = True)
mkdir(f, d) == [f EXCEPT !.dirs = @ \cup Parents(d)]

\* Path.exists() of a file of a data folder
FileExists(f, d, name) == d \in f.dirs /\ name \in DOMAIN f[d]

\* DataFrame.to_csv(path, index = False) into an existing folder
to_csv(f, d, name, t) == [f EXCEPT ![d] = (name :> t) @@ @]

\* the value a function returns, with what the call did
R0 == [op |-> "", module |-> "", args |-> <<>>, kind |-> "", dir |-> "", name |-> "",
       df |-> NoTable, kaggleCalled |-> FALSE, copytreeCalled |-> FALSE,
       destWas |-> "", copied |-> "", exc |-> "", value |-> ""]

RetPath(r, d, name) == [r EXCEPT !.kind = "path", !.dir = d, !.name = name]
RetNone(r) == [r EXCEPT !.kind = "None"]
RetRaise(r) == [r EXCEPT !.kind = "raise"]
RetValueError(r) == [r EXCEPT !.kind = "raise", !.exc = "ValueError"]
RetDf(r, t) == [r EXCEPT !.kind = "df", !.df = t]
RetStr(r, v) == [r EXCEPT !.kind = "str", !.value = v]

Call(op, module, args) == [R0 EXCEPT !.op = op, !.module = module, !.args = args]

----------------------------------------------------------------------------
\* downloading_dataset.py

\* what kagglehub.dataset_download and shutil.copytree can do in one call:
\* the download fails, the copy stops after some of the files, or both succeed
PartialCopies == {{}, {"races.csv"}, {"races.csv", "circuits.csv", "results.csv"}}

DownloadOutcomes ==
    {[kind |-> "download_failed", copied |-> {}], [kind |-> "ok", copied |-> {}]}
    \cup {[kind |-> "copy_failed", copied |-> c] : c \in PartialCopies}

\* any(destination_path.iterdir())
DatasetAlreadyExists(f, d) == DOMAIN f[d] # {}

\* a copy that leaves out the files after the first
copytree_first_only(src, dst, names) ==
    LET n1 == DOMAIN src \cap names
    IN  IF n1 = {} THEN dst ELSE LET n == CHOOSE x \in n1 : TRUE IN (n :> src[n]) @@ dst

\* shutil.copytree(src, dst, dirs_exist_ok = True), restricted to the files it reached
copytree(src, dst, names) == [n \in (DOMAIN src \cap names) |-> src[n]] @@ dst

download_dataset(f, src, outcome) ==
    LET r  == [Call("download_dataset", "downloading_dataset", <<"raw">>) EXCEPT
                  !.destWas = IF "raw" \notin f.dirs THEN "missing"
                              ELSE IF DOMAIN f.raw = {} THEN "empty" ELSE "files"]
        f1 == mkdir(f, "raw")
    IN  IF DatasetAlreadyExists(f1, "raw")
        THEN [fs |-> f1, ret |-> RetPath(r, "raw", "")]
        ELSE IF outcome.kind = "download_failed"
        THEN [fs |-> f1, ret |-> RetPath([r EXCEPT !.kaggleCalled = TRUE], "raw", "")]
        ELSE LET names == IF outcome.kind = "ok" THEN DOMAIN src ELSE outcome.copied
             IN  [fs |-> [f1 EXCEPT !.raw = copytree(src, @, names)],
                  ret |-> RetPath([r EXCEPT !.kaggleCalled = TRUE, !.copytreeCalled = TRUE,
                                            !.copied = IF outcome.kind = "ok" THEN "all" ELSE "some"],
                                  "raw", "")]

\* what the user types at input(): pieces of text, " " a run of whitespace
TypedInputs ==
    {<<"circuits.csv">>, <<" ", "circuits.csv", " ">>, <<" ", "races_cleaned.csv">>,
     <<"circuits", " ", "csv">>, <<"missing.csv">>, <<" ">>, <<>>}

RECURSIVE lstrip(_)
lstrip(s) == IF s # <<>> /\ Head(s) = " " THEN lstrip(Tail(s)) ELSE s

RECURSIVE rstrip(_)
rstrip(s) == IF s # <<>> /\ s[Len(s)] = " " THEN rstrip(SubSeq(s, 1, Len(s) - 1)) ELSE s

\* str.strip()
strip(s) == rstrip(lstrip(s))

\* Path(folder) / file_name, for the stripped text: the folder itself for the empty
\* name, the file of that name for one piece, and no file of the dataset otherwise
PathKind(s) == IF s = <<>> THEN "folder" ELSE IF Len(s) = 1 THEN "file" ELSE "other"

\* the body shared by load_csv and load_cleaned_csv: strip, exists(), read_csv
LoadFrom(f, d, r, typed) ==
    LET file_name == strip(typed)
    IN  CASE PathKind(file_name) = "folder" ->
                IF d \in f.dirs THEN RetRaise(r) ELSE RetNone(r)
          [] PathKind(file_name) = "file" ->
                IF FileExists(f, d, file_name[1]) THEN RetDf(r, f[d][file_name[1]])
                ELSE RetNone(r)
          [] OTHER -> RetNone(r)

load_csv(f, typed) ==
    [fs |-> f, ret |-> LoadFrom(f, "raw", Call("load_csv", "downloading_dataset", typed), typed)]

----------------------------------------------------------------------------
\* data_loader.py

raw_direction == "raw"
processed_direction == "processed"

\* the folder removed and made again
create_processed_folder_recreate(f) ==
    [fs |-> [mkdir(f, "processed") EXCEPT !.processed = <<>>],
     ret |-> RetPath(Call("create_processed_folder", "data_loader", <<>>), "processed", "")]

create_processed_folder(f) ==
    [fs |-> mkdir(f, processed_direction),
     ret |-> RetPath(Call("create_processed_folder", "data_loader", <<>>), processed_direction, "")]

filter_races_by_year(f, start_year, end_year) ==
    LET r == Call("filter_races_by_year", "data_loader", <<start_year, end_year>>)
    IN  IF ~FileExists(f, raw_direction, "races.csv")
        THEN [fs |-> f, ret |-> RetNone(r)]
        ELSE LET df_cleaned == RowsBetween(f[raw_direction]["races.csv"], "year", start_year, end_year)
                 f1 == mkdir(f, processed_direction)
             IN  [fs |-> to_csv(f1, processed_direction, "races_cleaned.csv", df_cleaned),
                  ret |-> RetPath(r, processed_direction, "races_cleaned.csv")]

\* f"{table_name}_cleaned.csv"
CleanedName(table_name) == table_name \o "_cleaned.csv"

\* nothing saved when no row is selected
filter_table_by_race_ids_skip_empty(f, table_name, race_ids, raw_filename) ==
    LET r == Call("filter_table_by_race_ids", "data_loader", <<table_name, race_ids, raw_filename>>)
    IN  IF ~FileExists(f, "raw", raw_filename)
        THEN [fs |-> f, ret |-> RetNone(r)]
        ELSE LET df == f.raw[raw_filename]
                 df_cleaned == RowsIsin(df, "raceId", race_ids)
             IN  IF ~HasCol(df, "raceId") \/ "processed" \notin f.dirs
                 THEN [fs |-> f, ret |-> RetRaise(r)]
                 ELSE [fs |-> IF df_cleaned.rows = <<>> THEN f
                              ELSE to_csv(f, "processed", CleanedName(table_name), df_cleaned),
                       ret |-> RetPath(r, "processed", CleanedName(table_name))]

\* the ValueError raised inside the try and caught with the read errors
filter_table_by_race_ids_caught(f, table_name, race_ids, raw_filename) ==
    LET r == Call("filter_table_by_race_ids", "data_loader", <<table_name, race_ids, raw_filename>>)
    IN  IF ~FileExists(f, "raw", raw_filename)
        THEN [fs |-> f, ret |-> RetNone(r)]
        ELSE LET df == f.raw[raw_filename]
             IN  IF ~HasCol(df, "raceId")
                 THEN [fs |-> f, ret |-> RetNone(r)]
                 ELSE IF "processed" \notin f.dirs
                 THEN [fs |-> f, ret |-> RetRaise(r)]
                 ELSE [fs |-> to_csv(f, "processed", CleanedName(table_name),
                                     RowsIsin(df, "raceId", race_ids)),
                       ret |-> RetPath(r, "processed", CleanedName(table_name))]

filter_table_by_race_ids(f, table_name, race_ids, raw_filename) ==
    LET r == Call("filter_table_by_race_ids", "data_loader", <<table_name, race_ids, raw_filename>>)
    IN  IF ~FileExists(f, raw_direction, raw_filename)
        THEN [fs |-> f, ret |-> RetNone(r)]
        ELSE LET df == f[raw_direction][raw_filename]
             IN  IF ~HasCol(df, "raceId")
                 THEN [fs |-> f, ret |-> RetValueError(r)]
                 ELSE IF processed_direction \notin f.dirs
                 THEN [fs |-> f, ret |-> RetRaise(r)]
                 ELSE [fs |-> to_csv(f, processed_direction, CleanedName(table_name),
                                     RowsIsin(df, "raceId", race_ids)),
                       ret |-> RetPath(r, processed_direction, CleanedName(table_name))]

\* the five dimension filters share one body: read a cleaned table and a raw table,
\* keep the raw rows whose key occurs in the cleaned table, save, verify
FilterByKeys(f, r, cleaned_file, raw_file, key, output_file) ==
    IF ~FileExists(f, processed_direction, cleaned_file) \/ ~FileExists(f, raw_direction, raw_file)
    THEN [fs |-> f, ret |-> RetNone(r)]
    ELSE LET valid == Col(f[processed_direction][cleaned_file], key)
         IN  [fs |-> to_csv(f, processed_direction, output_file,
                            RowsIsin(f[raw_direction][raw_file], key, valid)),
              ret |-> RetPath(r, processed_direction, output_file)]

\* the circuits compared with the raceId column of races_cleaned
filter_circuits_by_races_raceId(f) ==
    LET r == Call("filter_circuits_by_races", "data_loader", <<>>)
    IN  IF ~FileExists(f, "processed", "races_cleaned.csv") \/ ~FileExists(f, "raw", "circuits.csv")
        THEN [fs |-> f, ret |-> RetNone(r)]
        ELSE [fs |-> to_csv(f, "processed", "circuits_cleaned.csv",
                            RowsIsin(f.raw["circuits.csv"], "circuitId",
                                     Col(f.processed["races_cleaned.csv"], "raceId"))),
              ret |-> RetPath(r, "processed", "circuits_cleaned.csv")]

filter_circuits_by_races(f) ==
    FilterByKeys(f, Call("filter_circuits_by_races", "data_loader", <<>>),
                 "races_cleaned.csv", "circuits.csv", "circuitId", "circuits_cleaned.csv")

filter_constructors_by_races(f) ==
    FilterByKeys(f, Call("filter_constructors_by_races", "data_loader", <<>>),
                 "constructor_results_cleaned.csv", "constructors.csv", "constructorId",
                 "constructors_cleaned.csv")

\* the drivers of driver_standings_cleaned kept, as data_cleaning.py's filter_drivers_by_standings
filter_drivers_by_races_standings(f) ==
    FilterByKeys(f, Call("filter_drivers_by_races", "data_loader", <<>>),
                 "driver_standings_cleaned.csv", "drivers.csv", "driverId", "drivers_cleaned.csv")

filter_drivers_by_races(f) ==
    FilterByKeys(f, Call("filter_drivers_by_races", "data_loader", <<>>),
                 "results_cleaned.csv", "drivers.csv", "driverId", "drivers_cleaned.csv")

\* the seasons of the first call kept: nothing is written over an existing table
filter_seasons_by_year_keep(f) ==
    IF FileExists(f, "processed", "seasons_cleaned.csv")
    THEN [fs |-> f,
          ret |-> RetPath(Call("filter_seasons_by_year", "data_loader", <<>>),
                          "processed", "seasons_cleaned.csv")]
    ELSE FilterByKeys(f, Call("filter_seasons_by_year", "data_loader", <<>>),
                      "races_cleaned.csv", "seasons.csv", "year", "seasons_cleaned.csv")

filter_seasons_by_year(f) ==
    FilterByKeys(f, Call("filter_seasons_by_year", "data_loader", <<>>),
                 "races_cleaned.csv", "seasons.csv", "year", "seasons_cleaned.csv")

filter_status_by_results(f) ==
    FilterByKeys(f, Call("filter_status_by_results", "data_loader", <<>>),
                 "results_cleaned.csv", "status.csv", "statusId", "status_cleaned.csv")

load_cleaned_csv(f, typed) ==
    [fs |-> f,
     ret |-> LoadFrom(f, processed_direction, Call("load_cleaned_csv", "data_loader", typed), typed)]

----------------------------------------------------------------------------
\* data_cleaning.py: the earlier versions of three of the functions above, with
\* paths relative to the working directory and no try around the reads

dc_create_processed_folder(f) ==
    [fs |-> mkdir(f, "processed"),
     ret |-> RetPath(Call("create_processed_folder", "data_cleaning", <<>>), "processed", "")]

dc_filter_races_by_year(f, start_year, end_year) ==
    LET r == Call("filter_races_by_year", "data_cleaning", <<start_year, end_year>>)
    IN  IF ~FileExists(f, "raw", "races.csv")
        THEN [fs |-> f, ret |-> RetRaise(r)]
        ELSE LET df_cleaned == RowsBetween(f.raw["races.csv"], "year", start_year, end_year)
             IN  [fs |-> to_csv(mkdir(f, "processed"), "processed", "races_cleaned.csv", df_cleaned),
                  ret |-> RetPath(r, "processed", "races_cleaned.csv")]

dc_filter_circuits_by_races(f) ==
    LET r == Call("filter_circuits_by_races", "data_cleaning", <<>>)
    IN  IF ~FileExists(f, "processed", "races_cleaned.csv") \/ ~FileExists(f, "raw", "circuits.csv")
        THEN [fs |-> f, ret |-> RetRaise(r)]
        ELSE LET circuitId_recent == Col(f.processed["races_cleaned.csv"], "circuitId")
             IN  [fs |-> to_csv(mkdir(f, "processed"), "processed", "circuits_cleaned.csv",
                                RowsIsin(f.raw["circuits.csv"], "circuitId", circuitId_recent)),
                  ret |-> RetPath(r, "processed", "circuits_cleaned.csv")]

dc_filter_seasons_by_year(f) ==
    LET r == Call("filter_seasons_by_year", "data_cleaning", <<>>)
    IN  IF ~FileExists(f, "processed", "races_cleaned.csv") \/ ~FileExists(f, "raw", "seasons.csv")
        THEN [fs |-> f, ret |-> RetRaise(r)]
        ELSE LET years_in_races == Col(f.processed["races_cleaned.csv"], "year")
             IN  [fs |-> to_csv(mkdir(f, "processed"), "processed", "seasons_cleaned.csv",
                                RowsIsin(f.raw["seasons.csv"], "year", years_in_races)),
                  ret |-> RetPath(r, "processed", "seasons_cleaned.csv")]

----------------------------------------------------------------------------
\* data.py

\* the files moved instead of copied
copy_raw_to_processed_move(f) ==
    LET f1 == mkdir(f, "processed")
    IN  [fs |-> [f1 EXCEPT !.processed = f1.raw @@ @, !.raw = <<>>],
         ret |-> RetPath(Call("copy_raw_to_processed", "data", <<"raw", "processed">>), "processed", "")]

\* (processed_path / f.name).write_bytes(f.read_bytes()) for every raw/*.csv
copy_raw_to_processed(f) ==
    LET f1 == mkdir(f, "processed")
    IN  [fs |-> [f1 EXCEPT !.processed = f1.raw @@ @],
         ret |-> RetPath(Call("copy_raw_to_processed", "data", <<"raw", "processed">>), "processed", "")]

----------------------------------------------------------------------------
\* data_enrichment.py
\* Lengths are in metres and distances in metres (length_km and
\* race_distance_km times 1000), so that length * laps is exact.

\* the position of column c in the header (columns.get_loc), 0 when absent
get_loc(t, c) ==
    IF HasCol(t, c) THEN CHOOSE k \in 1..Len(t.cols) : t.cols[k] = c ELSE 0

\* the new columns put at the end of the header
InsertCols_at_end(cols, k, new_columns) == cols \o new_columns

\* the header after DataFrame.insert of new_columns, in order, right after position k
InsertCols(cols, k, new_columns) ==
    SubSeq(cols, 1, k) \o new_columns \o SubSeq(cols, k + 1, Len(cols))

\* the header after df[c] = ...: an existing column stays where it is, a new one
\* goes to the end
AssignCol(cols, c) ==
    IF \E k \in 1..Len(cols) : cols[k] = c THEN cols ELSE Append(cols, c)

\* a row with the cells of more added, a cell it already has left as it is
WithCells_keep(row, more) == row @@ more

\* a row with the cells of more, added or overwritten
WithCells(row, more) == more @@ row

add_extra_info_on_circuits(f) ==
    LET r == Call("add_extra_info_on_circuits", "data_enrichment", <<>>)
        new_columns == <<"length_km", "is_night_race", "track_type">>
    IN  IF ~FileExists(f, processed_direction, "circuits_cleaned.csv")
        THEN [fs |-> f, ret |-> RetNone(r)]
        ELSE LET circuits_df == f[processed_direction]["circuits_cleaned.csv"]
                 alt_index == get_loc(circuits_df, "alt")
                 Blank(row) == WithCells(row, [c \in {"length_km", "is_night_race", "track_type"} |-> NA])
             IN  IF alt_index = 0 \/ \E k \in 1..3 : HasCol(circuits_df, new_columns[k])
                 THEN [fs |-> f, ret |-> RetRaise(r)]
                 ELSE [fs |-> to_csv(f, processed_direction, "circuits_cleaned.csv",
                                     Tbl(InsertCols(circuits_df.cols, alt_index, new_columns),
                                         [k \in 1..Len(circuits_df.rows) |-> Blank(circuits_df.rows[k])])),
                       ret |-> RetPath(r, processed_direction, "circuits_cleaned.csv")]

\* the entries of the dictionary for the circuits of the model's dataset; the
\* dictionary has no entry for circuitId 2
circuits_info ==
    (1 :> [length_km |-> 5278, is_night_race |-> FALSE, track_type |-> "balanced"])
 @@ (3 :> [length_km |-> 5412, is_night_race |-> TRUE, track_type |-> "balanced"])

fill_circuit_extra_info(f) ==
    LET r == Call("fill_circuit_extra_info", "data_enrichment", <<>>)
    IN  IF ~FileExists(f, processed_direction, "circuits_cleaned.csv")
        THEN [fs |-> f, ret |-> RetNone(r)]
        ELSE LET df == f[processed_direction]["circuits_cleaned.csv"]
                 Fill(row) ==
                     IF row.circuitId \in DOMAIN circuits_info
                     THEN WithCells(row, circuits_info[row.circuitId])
                     ELSE WithCells(row, [c \in {"length_km", "is_night_race", "track_type"} |-> NA])
             IN  IF ~HasCol(df, "circuitId") /\ df.rows # <<>>
                 THEN [fs |-> f, ret |-> RetRaise(r)]
                 ELSE [fs |-> to_csv(f, processed_direction, "circuits_cleaned.csv",
                                     Tbl(AssignCol(AssignCol(AssignCol(df.cols, "length_km"),
                                                             "is_night_race"), "track_type"),
                                         [k \in 1..Len(df.rows) |-> Fill(df.rows[k])])),
                       ret |-> RetPath(r, processed_direction, "circuits_cleaned.csv")]

add_extra_info_on_races(f) ==
    LET r == Call("add_extra_info_on_races", "data_enrichment", <<>>)
    IN  IF ~FileExists(f, processed_direction, "races_cleaned.csv")
        THEN [fs |-> f, ret |-> RetNone(r)]
        ELSE LET races_df == f[processed_direction]["races_cleaned.csv"]
                 name_index == get_loc(races_df, "name")
                 Blank(row) == WithCells(row, [c \in {"race_distance_km"} |-> NA])
             IN  IF name_index = 0 \/ HasCol(races_df, "race_distance_km")
                 THEN [fs |-> f, ret |-> RetRaise(r)]
                 ELSE [fs |-> to_csv(f, processed_direction, "races_cleaned.csv",
                                     Tbl(InsertCols(races_df.cols, name_index, <<"race_distance_km">>),
                                         [k \in 1..Len(races_df.rows) |-> Blank(races_df.rows[k])])),
                       ret |-> RetPath(r, processed_direction, "races_cleaned.csv")]

\* the largest element of a non-empty set of integers
Max(S) == CHOOSE x \in S : \A y \in S : y <= x

\* the largest laps of the race among all its results, whatever their status
laps_completed_any_status(results_df, raceId) ==
    LET laps == {results_df.rows[k].laps :
                    k \in {j \in 1..Len(results_df.rows) : results_df.rows[j].raceId = raceId}} \ {NA}
    IN  IF laps = {} THEN NA ELSE Max(laps)

\* finished.groupby("raceId")["laps"].max() looked up for one race: NA when no
\* finished result of the race exists
laps_completed(results_df, raceId) ==
    LET finished == {k \in 1..Len(results_df.rows) :
                        results_df.rows[k].statusId = 1 /\ results_df.rows[k].raceId = raceId}
        laps == {results_df.rows[k].laps : k \in finished} \ {NA}
    IN  IF laps = {} THEN NA ELSE Max(laps)

\* circuits_df[["circuitId", "length_km"]] looked up for one race (left merge)
length_of(circuits_df, circuitId) ==
    LET hit == {k \in 1..Len(circuits_df.rows) : circuits_df.rows[k].circuitId = circuitId}
    IN  IF hit = {} THEN NA ELSE circuits_df.rows[CHOOSE k \in hit : TRUE].length_km

\* arithmetic on cells: NA when an operand is NA
Times(a, b) == IF a = NA \/ b = NA THEN NA ELSE a * b

fill_races_distance_km(f) ==
    LET r == Call("fill_races_distance_km", "data_enrichment", <<>>)
    IN  IF \/ ~FileExists(f, processed_direction, "races_cleaned.csv")
           \/ ~FileExists(f, processed_direction, "circuits_cleaned.csv")
           \/ ~FileExists(f, processed_direction, "results_cleaned.csv")
        THEN [fs |-> f, ret |-> RetNone(r)]
        ELSE LET races_df == f[processed_direction]["races_cleaned.csv"]
                 circuits_df == f[processed_direction]["circuits_cleaned.csv"]
                 results_df == f[processed_direction]["results_cleaned.csv"]
                 Distance(row) ==
                     WithCells(row, [c \in {"race_distance_km"} |->
                         Times(length_of(circuits_df, row.circuitId),
                               laps_completed(results_df, row.raceId))])
                 out == Tbl(AssignCol(races_df.cols, "race_distance_km"), [k \in 1..Len(races_df.rows) |-> Distance(races_df.rows[k])])
             IN  IF ~HasCol(circuits_df, "length_km")
                 THEN [fs |-> f, ret |-> RetRaise(r)]
                 ELSE [fs |-> to_csv(f, processed_direction, "races_cleaned.csv", out),
                       ret |-> IF \A k \in 1..Len(out.rows) : out.rows[k].race_distance_km = NA
                               THEN RetNone(r)
                               ELSE RetPath(r, processed_direction, "races_cleaned.csv")]

UpperCase == <<"A", "B", "C", "D", "E", "F", "G", "H", "I", "J", "K", "L", "M", "N", "O", "P", "Q", "R", "S", "T", "U", "V", "W", "X", "Y", "Z">>
LowerCase == <<"a", "b", "c", "d", "e", "f", "g", "h", "i", "j", "k", "l", "m", "n", "o", "p", "q", "r", "s", "t", "u", "v", "w", "x", "y", "z">>

\* str.lower() of one character
lower(c) ==
    IF \E k \in 1..Len(UpperCase) : UpperCase[k] = c
    THEN LowerCase[CHOOSE k \in 1..Len(UpperCase) : UpperCase[k] = c]
    ELSE c

\* the text left in the case it has
str_lower_as_is(text) == text

\* str(text).lower()
str_lower(text) == [k \in 1..Len(text) |-> lower(text[k])]

\* word in t, for strings
Contains(t, word) ==
    \E k \in 0..(Len(t) - Len(word)) : SubSeq(t, k + 1, k + Len(word)) = word

crash_words ==
    {<<"a", "c", "c", "i", "d", "e", "n", "t">>,
     <<"c", "o", "l", "l", "i", "s", "i", "o", "n">>,
     <<"c", "r", "a", "s", "h">>,
     <<"c", "o", "n", "t", "a", "c", "t">>,
     <<"s", "p", "u", "n", " ", "o", "f", "f">>,
     <<"d", "a", "m", "a", "g", "e">>}

mechanical_words ==
    {<<"e", "n", "g", "i", "n", "e">>,
     <<"g", "e", "a", "r", "b", "o", "x">>,
     <<"h", "y", "d", "r", "a", "u", "l", "i", "c", "s">>,
     <<"b", "r", "a", "k", "e", "s">>,
     <<"s", "u", "s", "p", "e", "n", "s", "i", "o", "n">>,
     <<"e", "x", "h", "a", "u", "s", "t">>,
     <<"c", "l", "u", "t", "c", "h">>,
     <<"p", "o", "w", "e", "r">>,
     <<"f", "u", "e", "l">>,
     <<"o", "v", "e", "r", "h", "e", "a", "t", "i", "n", "g">>,
     <<"o", "i", "l">>,
     <<"r", "a", "d", "i", "a", "t", "o", "r">>,
     <<"t", "u", "r", "b", "o">>,
     <<"d", "r", "i", "v", "e", "s", "h", "a", "f", "t">>,
     <<"m", "e", "c", "h", "a", "n", "i", "c", "a", "l">>,
     <<"t", "r", "a", "n", "s", "m", "i", "s", "s", "i", "o", "n">>,
     <<"e", "l", "e", "c", "t", "r", "i", "c", "a", "l">>,
     <<"d", "i", "f", "f", "e", "r", "e", "n", "t", "i", "a", "l">>,
     <<"p", "u", "n", "c", "t", "u", "r", "e">>,
     <<"f", "r", "o", "n", "t", " ", "w", "i", "n", "g">>,
     <<"w", "a", "t", "e", "r">>,
     <<"w", "h", "e", "e", "l">>,
     <<"s", "t", "e", "e", "r", "i", "n", "g">>,
     <<"e", "l", "e", "c", "t", "r", "o", "n", "i", "c", "s">>,
     <<"H", "a", "n", "d", "l", "i", "n", "g">>,
     <<"r", "e", "a", "r", " ", "w", "i", "n", "g">>,
     <<"v", "i", "b", "r", "a", "t", "i", "o", "n", "s">>,
     <<"u", "n", "d", "e", "r", "t", "r", "a", "y">>,
     <<"c", "o", "o", "l", "i", "n", "g", " ", "s", "y", "s", "t", "e", "m">>,
     <<"t", "h", "r", "o", "t", "t", "l", "e">>,
     <<"t", "e", "c", "h", "n", "i", "c", "a", "l">>,
     <<"h", "a", "n", "d", "l", "i", "n", "g">>}

other_dnf_words ==
    {<<"r", "e", "t", "i", "r", "e", "d">>,
     <<"w", "i", "t", "h", "d", "r", "e", "w">>,
     <<"d", "i", "s", "q", "u", "a", "l", "i", "f", "i", "e", "d">>,
     <<"i", "l", "l", "n", "e", "s", "s">>,
     <<"d", "e", "b", "r", "i", "s">>,
     <<"u", "n", "d", "e", "r", "w", "e", "i", "g", "h", "t">>}

classify_mech_crash_other(text) ==
    LET t == str_lower(text)
    IN  IF \E word \in crash_words : Contains(t, word) THEN "crash"
        ELSE IF \E word \in mechanical_words : Contains(t, word) THEN "mechanical"
        ELSE IF \E word \in other_dnf_words : Contains(t, word) THEN "other_dnf"
        ELSE "no_dnf"

\* every kind of DNF flagged as is_other_dnf
add_status_dnf_categories_any_dnf(f) ==
    LET r == Call("add_status_dnf_categories", "data_enrichment", <<>>)
    IN  IF ~FileExists(f, processed_direction, "status_cleaned.csv")
        THEN [fs |-> f, ret |-> RetNone(r)]
        ELSE LET status_df == f[processed_direction]["status_cleaned.csv"]
                 Categories(row) ==
                     LET dnf_category == classify_mech_crash_other(row.status)
                     IN  WithCells(row, [dnf_category |-> dnf_category,
                                         is_mechanical |-> dnf_category = "mechanical",
                                         is_crash |-> dnf_category = "crash",
                                         is_other_dnf |-> dnf_category # "no_dnf",
                                         is_no_dnf |-> dnf_category = "no_dnf"])
                 cols == AssignCol(AssignCol(AssignCol(AssignCol(AssignCol(status_df.cols,
                             "dnf_category"), "is_mechanical"), "is_crash"), "is_other_dnf"), "is_no_dnf")
             IN  IF ~HasCol(status_df, "status")
                 THEN [fs |-> f, ret |-> RetRaise(r)]
                 ELSE [fs |-> to_csv(f, processed_direction, "status_cleaned.csv",
                                     Tbl(cols, [k \in 1..Len(status_df.rows) |-> Categories(status_df.rows[k])])),
                       ret |-> RetPath(r, processed_direction, "status_cleaned.csv")]

add_status_dnf_categories(f) ==
    LET r == Call("add_status_dnf_categories", "data_enrichment", <<>>)
    IN  IF ~FileExists(f, processed_direction, "status_cleaned.csv")
        THEN [fs |-> f, ret |-> RetNone(r)]
        ELSE LET status_df == f[processed_direction]["status_cleaned.csv"]
                 Categories(row) ==
                     LET dnf_category == classify_mech_crash_other(row.status)
                     IN  WithCells(row, [dnf_category |-> dnf_category,
                                         is_mechanical |-> dnf_category = "mechanical",
                                         is_crash |-> dnf_category = "crash",
                                         is_other_dnf |-> dnf_category = "other_dnf",
                                         is_no_dnf |-> dnf_category = "no_dnf"])
                 cols == AssignCol(AssignCol(AssignCol(AssignCol(AssignCol(status_df.cols,
                             "dnf_category"), "is_mechanical"), "is_crash"), "is_other_dnf"), "is_no_dnf")
             IN  IF ~HasCol(status_df, "status")
                 THEN [fs |-> f, ret |-> RetRaise(r)]
                 ELSE [fs |-> to_csv(f, processed_direction, "status_cleaned.csv",
                                     Tbl(cols, [k \in 1..Len(status_df.rows) |-> Categories(status_df.rows[k])])),
                       ret |-> RetPath(r, processed_direction, "status_cleaned.csv")]

----------------------------------------------------------------------------
\* data_enhancement.py: the earlier version of add_extra_info_on_circuits, with a
\* path relative to the working directory and no try around the read

de_add_extra_info_on_circuits(f) ==
    LET r == Call("add_extra_info_on_circuits", "data_enhancement", <<>>)
        new_columns == <<"length_km", "is_night_race", "track_type">>
    IN  IF ~FileExists(f, "processed", "circuits_cleaned.csv")
        THEN [fs |-> f, ret |-> RetRaise(r)]
        ELSE LET circuits_df == f.processed["circuits_cleaned.csv"]
                 alt_index == get_loc(circuits_df, "alt")
                 Blank(row) == WithCells(row, [c \in {"length_km", "is_night_race", "track_type"} |-> NA])
             IN  IF alt_index = 0 \/ \E k \in 1..3 : HasCol(circuits_df, new_columns[k])
                 THEN [fs |-> f, ret |-> RetRaise(r)]
                 ELSE [fs |-> to_csv(f, "processed", "circuits_cleaned.csv",
                                     Tbl(InsertCols(circuits_df.cols, alt_index, new_columns),
                                         [k \in 1..Len(circuits_df.rows) |-> Blank(circuits_df.rows[k])])),
                       ret |-> RetPath(r, "processed", "circuits_cleaned.csv")]

----------------------------------------------------------------------------
\* features.py
\* A quotient is kept exact, as the record [num, den]; NA where pandas yields NaN.
\* The paths of this module are relative to the working directory, the parent
\* folder of the project, as in data_cleaning.py.

Frac(n, d) == [num |-> n, den |-> d]

Min(S) == CHOOSE x \in S : \A y \in S : x <= y

\* the elements of a set of integers in ascending order: the order groupby gives its keys
RECURSIVE SortSet(_)
SortSet(S) == IF S = {} THEN <<>> ELSE <<Min(S)>> \o SortSet(S \ {Min(S)})

\* the cells of column c of a sequence of rows, NA left out
Cells(rows, c) == SelectSeq([k \in 1..Len(rows) |-> rows[k][c]], LAMBDA v : v # NA)

RECURSIVE SumSeq(_)
SumSeq(s) == IF s = <<>> THEN 0 ELSE Head(s) + SumSeq(Tail(s))

\* the values of a sequence of integers in ascending order
RECURSIVE SortValues(_)
SortValues(s) ==
    IF s = <<>> THEN <<>>
    ELSE LET m == Min({s[k] : k \in 1..Len(s)})
             at == CHOOSE k \in 1..Len(s) : s[k] = m
         IN  <<m>> \o SortValues(SubSeq(s, 1, at - 1) \o SubSeq(s, at + 1, Len(s)))

\* Series.sum() of a boolean column
CountTrue(flags) == Cardinality({k \in 1..Len(flags) : flags[k]})

\* Series.nunique()
nunique(rows, c) == Cardinality({rows[k][c] : k \in 1..Len(rows)} \ {NA})

\* Series.mean(): NaN for a group with no value
mean(rows, c) ==
    LET v == Cells(rows, c) IN IF v = <<>> THEN NA ELSE Frac(SumSeq(v), Len(v))

\* Series.median(): the middle value, or the mean of the two middle values
median(rows, c) ==
    LET v == SortValues(Cells(rows, c))
        n == Len(v)
    IN  IF n = 0 THEN NA
        ELSE IF n % 2 = 1 THEN Frac(v[(n + 1) \div 2], 1)
        ELSE Frac(v[n \div 2] + v[n \div 2 + 1], 2)

\* Series.min()
min(rows, c) ==
    LET v == Cells(rows, c) IN IF v = <<>> THEN NA ELSE Min({v[k] : k \in 1..Len(v)})

\* a comparison of a cell with a number: False for a missing cell
Le(v, n) == v # NA /\ v <= n

\* merge(other[[key, c]], on = key, how = "left") looked up for one key
Lookup(other, key, k, c) ==
    LET hit == {j \in 1..Len(other.rows) : other.rows[j][key] = k}
    IN  IF hit = {} THEN NA ELSE other.rows[Min(hit)][c]

GroupRows(t, key, k) == SelectSeq(t.rows, LAMBDA row : row[key] = k)

\* the nine columns the drivers, constructors and driver-circuit tables share
PerformanceStats(rows, finished) ==
    LET races_count == nunique(rows, "raceId")
        finished_races == Len(finished)
    IN  [races_count |-> races_count,
         finished_races |-> finished_races,
         finish_rate |-> IF races_count = 0 THEN NA ELSE Frac(finished_races, races_count),
         win_count |-> CountTrue([x \in 1..Len(rows) |-> rows[x].positionOrder = 1]),
         podiums |-> CountTrue([x \in 1..Len(rows) |-> Le(rows[x].positionOrder, 3)]),
         top10_finishes |-> CountTrue([x \in 1..Len(rows) |-> Le(rows[x].positionOrder, 10)]),
         avg_finish_position |-> mean(finished, "positionOrder"),
         med_finish_position |-> median(finished, "positionOrder"),
         total_points |-> SumSeq(Cells(rows, "points"))]

PerformanceCols ==
    <<"races_count", "finished_races", "finish_rate", "win_count", "podiums", "top10_finishes",
      "avg_finish_position", "med_finish_position", "total_points">>

\* features.py line 54 breaks off after "results_df["position"].notna() & (position";
\* the flag is taken as the docstring gives it: finished when position is not null
build_drivers_performance(f) ==
    LET r == Call("build_drivers_performance", "features", <<>>)
    IN  IF \/ ~FileExists(f, "processed", "results_cleaned.csv")
           \/ ~FileExists(f, "processed", "drivers_cleaned.csv")
        THEN [fs |-> f, ret |-> RetNone(r)]
        ELSE LET results_df == f.processed["results_cleaned.csv"]
                 drivers_df == f.processed["drivers_cleaned.csv"]
                 keys == SortSet(Col(results_df, "driverId") \ {NA})
                 Row(k) == [driverId |-> k, surname |-> Lookup(drivers_df, "driverId", k, "surname")]
                           @@ PerformanceStats(GroupRows(results_df, "driverId", k),
                                  SelectSeq(GroupRows(results_df, "driverId", k),
                                            LAMBDA row : row.position # NA))
             IN  [fs |-> to_csv(f, "processed", "drivers_performance.csv",
                                Tbl(<<"driverId", "surname">> \o PerformanceCols,
                                    [j \in 1..Len(keys) |-> Row(keys[j])])),
                  ret |-> RetPath(r, "processed", "drivers_performance.csv")]

build_constructors_performance(f) ==
    LET r == Call("build_constructors_performance", "features", <<>>)
    IN  IF \/ ~FileExists(f, "processed", "results_cleaned.csv")
           \/ ~FileExists(f, "processed", "constructors_cleaned.csv")
        THEN [fs |-> f, ret |-> RetNone(r)]
        ELSE LET results_df == f.processed["results_cleaned.csv"]
                 constructors_df == f.processed["constructors_cleaned.csv"]
                 keys == SortSet(Col(results_df, "constructorId") \ {NA})
                 Row(k) == [constructorId |-> k,
                            name |-> Lookup(constructors_df, "constructorId", k, "name")]
                           @@ PerformanceStats(GroupRows(results_df, "constructorId", k),
                                  SelectSeq(GroupRows(results_df, "constructorId", k),
                                            LAMBDA row : row.statusId = 1 /\ row.positionOrder # NA))
             IN  [fs |-> to_csv(f, "processed", "constructors_performance.csv",
                                Tbl(<<"constructorId", "name">> \o PerformanceCols,
                                    [j \in 1..Len(keys) |-> Row(keys[j])])),
                  ret |-> RetPath(r, "processed", "constructors_performance.csv")]

build_qualifying_performance(f) ==
    LET r == Call("build_qualifying_performance", "features", <<>>)
    IN  IF \/ ~FileExists(f, "processed", "qualifying_cleaned.csv")
           \/ ~FileExists(f, "processed", "drivers_cleaned.csv")
        THEN [fs |-> f, ret |-> RetNone(r)]
        ELSE LET quali_df == f.processed["qualifying_cleaned.csv"]
                 drivers_df == f.processed["drivers_cleaned.csv"]
                 keys == SortSet(Col(quali_df, "driverId") \ {NA})
                 Row(k) ==
                     LET rows == GroupRows(quali_df, "driverId", k)
                     IN  [driverId |-> k,
                          surname |-> Lookup(drivers_df, "driverId", k, "surname"),
                          quali_sessions_count |-> Len(rows),
                          pole_count |-> CountTrue([x \in 1..Len(rows) |-> rows[x].position = 1]),
                          avg_quali_position |-> mean(rows, "position"),
                          med_quali_position |-> median(rows, "position"),
                          best_quali_position |-> min(rows, "position")]
             IN  [fs |-> to_csv(f, "processed", "qualifying_performance.csv",
                                Tbl(<<"driverId", "surname", "quali_sessions_count", "pole_count",
                                      "avg_quali_position", "med_quali_position",
                                      "best_quali_position">>,
                                    [j \in 1..Len(keys) |-> Row(keys[j])])),
                  ret |-> RetPath(r, "processed", "qualifying_performance.csv")]

build_sprint_performance(f) ==
    LET r == Call("build_sprint_performance", "features", <<>>)
    IN  IF \/ ~FileExists(f, "processed", "sprint_results_cleaned.csv")
           \/ ~FileExists(f, "processed", "drivers_cleaned.csv")
        THEN [fs |-> f, ret |-> RetNone(r)]
        ELSE LET sprint_df == f.processed["sprint_results_cleaned.csv"]
                 drivers_df == f.processed["drivers_cleaned.csv"]
                 keys == SortSet(Col(sprint_df, "driverId") \ {NA})
                 Row(k) ==
                     LET rows == GroupRows(sprint_df, "driverId", k)
                         finished_sprints ==
                             SelectSeq(rows, LAMBDA row : row.statusId = 1 /\ row.position # NA)
                     IN  [driverId |-> k,
                          surname |-> Lookup(drivers_df, "driverId", k, "surname"),
                          sprint_count |-> nunique(rows, "raceId"),
                          sprint_finished |-> Len(finished_sprints),
                          best_sprint_position |-> min(rows, "position"),
                          avg_sprint_position |-> mean(finished_sprints, "position"),
                          med_sprint_position |-> median(finished_sprints, "position"),
                          top3_sprint_finishes |-> CountTrue([x \in 1..Len(rows) |-> Le(rows[x].position, 3)]),
                          top8_sprint_finishes |-> CountTrue([x \in 1..Len(rows) |-> Le(rows[x].position, 8)]),
                          sprint_points |-> SumSeq(Cells(rows, "points"))]
             IN  [fs |-> to_csv(f, "processed", "sprint_performance.csv",
                                Tbl(<<"driverId", "surname", "sprint_count", "sprint_finished",
                                      "best_sprint_position", "avg_sprint_position",
                                      "med_sprint_position", "top3_sprint_finishes",
                                      "top8_sprint_finishes", "sprint_points">>,
                                    [j \in 1..Len(keys) |-> Row(keys[j])])),
                  ret |-> RetPath(r, "processed", "sprint_performance.csv")]

\* the alternatives of the two regular expressions of add_constructors_reliability_features
mechanical_keywords ==
    {<<"e", "n", "g", "i", "n", "e">>,
     <<"g", "e", "a", "r", "b", "o", "x">>,
     <<"h", "y", "d", "r", "a", "u", "l", "i", "c">>,
     <<"e", "l", "e", "c", "t", "r", "i", "c", "a", "l">>,
     <<"s", "u", "s", "p", "e", "n", "s", "i", "o", "n">>,
     <<"t", "r", "a", "n", "s", "m", "i", "s", "s", "i", "o", "n">>,
     <<"b", "r", "a", "k", "e">>,
     <<"f", "u", "e", "l">>,
     <<"o", "i", "l">>,
     <<"t", "u", "r", "b", "o">>,
     <<"m", "e", "c", "h", "a", "n", "i", "c", "a", "l">>,
     <<"p", "o", "w", "e", "r", " ", "u", "n", "i", "t">>,
     <<"o", "v", "e", "r", "h", "e", "a", "t">>}

crash_keywords ==
    {<<"a", "c", "c", "i", "d", "e", "n", "t">>,
     <<"c", "o", "l", "l", "i", "s", "i", "o", "n">>,
     <<"c", "r", "a", "s", "h">>,
     <<"d", "a", "m", "a", "g", "e">>,
     <<"s", "p", "u", "n">>}

\* the path of this function is relative to the working directory; merging into a
\* table that already has the columns leaves no column named total_dnf (KeyError)
add_constructors_reliability_features(f) ==
    LET r == Call("add_constructors_reliability_features", "features", <<>>)
    IN  IF \/ ~FileExists(f, "processed", "results_cleaned.csv")
           \/ ~FileExists(f, "processed", "status_cleaned.csv")
           \/ ~FileExists(f, "processed", "constructors_performance.csv")
        THEN [fs |-> f, ret |-> RetNone(r)]
        ELSE LET results_df == f.processed["results_cleaned.csv"]
                 status_df == f.processed["status_cleaned.csv"]
                 perf_df == f.processed["constructors_performance.csv"]
                 status_text(row) ==
                     LET hit == {j \in 1..Len(status_df.rows) :
                                    status_df.rows[j].statusId = row.statusId}
                     IN  IF hit = {} THEN <<>> ELSE str_lower(status_df.rows[Min(hit)].status)
                 is_dnf(row) == ~(row.statusId = 1 /\ row.positionOrder # NA)
                 Reliability(row) ==
                     LET rows == GroupRows(results_df, "constructorId", row.constructorId)
                         total_dnf == CountTrue([x \in 1..Len(rows) |-> is_dnf(rows[x])])
                         known == rows # <<>>
                     IN  [total_dnf |-> IF known THEN total_dnf ELSE NA,
                          mechanical_dnf |->
                              IF known
                              THEN CountTrue([x \in 1..Len(rows) |->
                                      /\ is_dnf(rows[x])
                                      /\ \E word \in mechanical_keywords :
                                             Contains(status_text(rows[x]), word)])
                              ELSE NA,
                          crash_dnf |->
                              IF known
                              THEN CountTrue([x \in 1..Len(rows) |->
                                      /\ is_dnf(rows[x])
                                      /\ \E word \in crash_keywords :
                                             Contains(status_text(rows[x]), word)])
                              ELSE NA,
                          reliability_rate |->
                              IF ~known \/ row.finished_races + total_dnf = 0 THEN NA
                              ELSE Frac(row.finished_races, row.finished_races + total_dnf)]
                         @@ row
             IN  IF HasCol(perf_df, "total_dnf")
                 THEN [fs |-> f, ret |-> RetRaise(r)]
                 ELSE [fs |-> to_csv(f, "processed", "constructors_performance.csv",
                                     Tbl(perf_df.cols \o <<"total_dnf", "mechanical_dnf", "crash_dnf",
                                                           "reliability_rate">>,
                                         [k \in 1..Len(perf_df.rows) |-> Reliability(perf_df.rows[k])])),
                       ret |-> RetPath(r, "processed", "constructors_performance.csv")]

\* grouping by the driver alone: one pair for each driver
RECURSIVE SortPairs_by_driver(_)
SortPairs_by_driver(S) ==
    IF S = {} THEN <<>>
    ELSE LET m == CHOOSE p \in S : \A q \in S : p[1] < q[1] \/ (p[1] = q[1] /\ p[2] <= q[2])
         IN  <<m>> \o SortPairs_by_driver({q \in S : q[1] # m[1]})

\* the (driverId, circuitId) pairs in the order groupby gives them
RECURSIVE SortPairs(_)
SortPairs(S) ==
    IF S = {} THEN <<>>
    ELSE LET m == CHOOSE p \in S : \A q \in S : p[1] < q[1] \/ (p[1] = q[1] /\ p[2] <= q[2])
         IN  <<m>> \o SortPairs(S \ {m})

build_driver_circuits_performance(f) ==
    LET r == Call("build_driver_circuits_performance", "features", <<>>)
    IN  IF \/ ~FileExists(f, "processed", "results_cleaned.csv")
           \/ ~FileExists(f, "processed", "circuits_cleaned.csv")
           \/ ~FileExists(f, "processed", "drivers_cleaned.csv")
           \/ ~FileExists(f, "processed", "races_cleaned.csv")
        THEN [fs |-> f, ret |-> RetNone(r)]
        ELSE LET results_df == f.processed["results_cleaned.csv"]
                 circuits_df == f.processed["circuits_cleaned.csv"]
                 drivers_df == f.processed["drivers_cleaned.csv"]
                 races_df == f.processed["races_cleaned.csv"]
                 merged == [k \in 1..Len(results_df.rows) |->
                               [circuitId |-> Lookup(races_df, "raceId", results_df.rows[k].raceId,
                                                     "circuitId")] @@ results_df.rows[k]]
                 keys == SortPairs({<<merged[k].driverId, merged[k].circuitId>> :
                                       k \in {j \in 1..Len(merged) : merged[j].driverId # NA
                                                                     /\ merged[j].circuitId # NA}})
                 Row(p) ==
                     LET rows == SelectSeq(merged, LAMBDA row : row.driverId = p[1]
                                                               /\ row.circuitId = p[2])
                     IN  [driverId |-> p[1],
                          surname |-> Lookup(drivers_df, "driverId", p[1], "surname"),
                          circuitId |-> p[2],
                          name |-> Lookup(circuits_df, "circuitId", p[2], "name"),
                          dnf_count |-> CountTrue([x \in 1..Len(rows) |-> rows[x].statusId # 1])]
                         @@ PerformanceStats(rows,
                                SelectSeq(rows, LAMBDA row : row.statusId = 1
                                                             /\ row.positionOrder # NA))
             IN  [fs |-> to_csv(f, "processed", "circuits_performance.csv",
                                Tbl(<<"driverId", "surname", "circuitId", "name">>
                                        \o PerformanceCols \o <<"dnf_count">>,
                                    [j \in 1..Len(keys) |-> Row(keys[j])])),
                  ret |-> RetPath(r, "processed", "circuits_performance.csv")]

\* whether a cell that holds a quotient or nothing holds nothing
isna(v) == ToString(v) = ToString(NA)

\* a / b < c / d for two quotients
FracLess(a, b) == a.num * b.den < b.num * a.den

\* groupby("driverId")["avg_finish_position"].idxmin() for one driver: the first row
\* of the least value, 0 when the driver has no value at all
idxmin(t, driverId) ==
    LET own == {k \in 1..Len(t.rows) : t.rows[k].driverId = driverId
                                        /\ ~isna(t.rows[k].avg_finish_position)}
    IN  IF own = {} THEN 0
        ELSE Min({k \in own : \A j \in own :
                     ~FracLess(t.rows[j].avg_finish_position, t.rows[k].avg_finish_position)})

SummaryCols ==
    <<"driverId", "surname", "drv_races_count", "drv_finished_races", "drv_finish_rate",
      "drv_win_count", "drv_podiums", "drv_top10_finishes", "drv_avg_finish_position",
      "drv_med_finish_position", "drv_total_points", "quali_sessions_count",
      "quali_pole_count", "quali_avg_position", "quali_med_position", "quali_best_position",
      "sprint_count", "sprint_finished", "sprint_best_position", "sprint_avg_position",
      "sprint_med_position", "sprint_top3_finishes", "sprint_top8_finishes", "sprint_points",
      "circuit_best_avg_position">>

\* indexing with the label idxmin gives a group without a value (NaN) raises
build_drivers_performance_summary(f) ==
    LET r == Call("build_drivers_performance_summary", "features", <<>>)
    IN  IF \/ ~FileExists(f, "processed", "drivers_performance.csv")
           \/ ~FileExists(f, "processed", "qualifying_performance.csv")
           \/ ~FileExists(f, "processed", "sprint_performance.csv")
           \/ ~FileExists(f, "processed", "circuits_performance.csv")
        THEN [fs |-> f, ret |-> RetNone(r)]
        ELSE LET drivers_perf_df == f.processed["drivers_performance.csv"]
                 quali_perf_df == f.processed["qualifying_performance.csv"]
                 sprint_perf_df == f.processed["sprint_performance.csv"]
                 circuits_perf_df == f.processed["circuits_performance.csv"]
                 Q(d, c) == Lookup(quali_perf_df, "driverId", d, c)
                 S(d, c) == Lookup(sprint_perf_df, "driverId", d, c)
                 best_circuit(d) ==
                     IF idxmin(circuits_perf_df, d) = 0 THEN NA
                     ELSE circuits_perf_df.rows[idxmin(circuits_perf_df, d)].name
                 Row(row) ==
                     LET d == row.driverId
                     IN  [driverId |-> d,
                          surname |-> row.surname,
                          drv_races_count |-> row.races_count,
                          drv_finished_races |-> row.finished_races,
                          drv_finish_rate |-> row.finish_rate,
                          drv_win_count |-> row.win_count,
                          drv_podiums |-> row.podiums,
                          drv_top10_finishes |-> row.top10_finishes,
                          drv_avg_finish_position |-> row.avg_finish_position,
                          drv_med_finish_position |-> row.med_finish_position,
                          drv_total_points |-> row.total_points,
                          quali_sessions_count |-> Q(d, "quali_sessions_count"),
                          quali_pole_count |-> Q(d, "pole_count"),
                          quali_avg_position |-> Q(d, "avg_quali_position"),
                          quali_med_position |-> Q(d, "med_quali_position"),
                          quali_best_position |-> Q(d, "best_quali_position"),
                          sprint_count |-> S(d, "sprint_count"),
                          sprint_finished |-> S(d, "sprint_finished"),
                          sprint_best_position |-> S(d, "best_sprint_position"),
                          sprint_avg_position |-> S(d, "avg_sprint_position"),
                          sprint_med_position |-> S(d, "med_sprint_position"),
                          sprint_top3_finishes |-> S(d, "top3_sprint_finishes"),
                          sprint_top8_finishes |-> S(d, "top8_sprint_finishes"),
                          sprint_points |-> S(d, "sprint_points"),
                          circuit_best_avg_position |-> best_circuit(d)]
             IN  IF \E k \in 1..Len(circuits_perf_df.rows) :
                        idxmin(circuits_perf_df, circuits_perf_df.rows[k].driverId) = 0
                 THEN [fs |-> f, ret |-> RetRaise(r)]
                 ELSE [fs |-> to_csv(f, "processed", "drivers_performance_summary.csv",
                                     Tbl(SummaryCols, [k \in 1..Len(drivers_perf_df.rows) |->
                                                          Row(drivers_perf_df.rows[k])])),
                       ret |-> RetPath(r, "processed", "drivers_performance_summary.csv")]

----------------------------------------------------------------------------
\* main.py: loading the script (its import statements, executed in order)

\* the names each module of src/ defines at top level
ModuleDefs(m) ==
    CASE m = "downloading_dataset" -> {"download_dataset", "load_csv"}
      [] m = "data_loader" ->
            {"raw_direction", "processed_direction", "create_processed_folder",
             "filter_races_by_year", "filter_table_by_race_ids", "filter_circuits_by_races",
             "filter_constructors_by_races", "filter_drivers_by_races",
             "filter_seasons_by_year", "filter_status_by_results", "load_cleaned_csv"}
      [] m = "data_enrichment" ->
            {"add_extra_info_on_circuits", "fill_circuit_extra_info", "add_extra_info_on_races",
             "fill_races_distance_km", "add_status_dnf_categories"}
      [] m = "features" ->
            {"build_drivers_performance", "build_constructors_performance",
             "add_constructors_reliability_features", "build_qualifying_performance",
             "build_sprint_performance", "build_driver_circuits_performance",
             "build_drivers_performance_summary", "build_races_drivers_features"}
      [] OTHER -> {}

\* the imports of other modules of src/ a module executes when it is loaded
ModuleImports(m) ==
    CASE m = "data_loader" -> <<[module |-> "downloading_dataset", names |-> {"project_root"}]>>
      [] m = "data_enrichment" -> <<[module |-> "data_loader", names |-> {"processed_direction"}]>>
      [] m = "features" -> <<[module |-> "data_loader", names |-> {"processed_direction"}]>>
      [] OTHER -> <<>>

\* whether the module's text compiles: features.py line 54 leaves "(" open
ModuleCompiles(m) == m # "features"

\* the from ... import statements of main.py
MainImports ==
    <<[module |-> "downloading_dataset", names |-> {"download_dataset"}],
      [module |-> "data_loader", names |->
            {"create_processed_folder", "filter_races_by_year", "filter_table_by_race_ids",
             "filter_circuits_by_races", "filter_constructors_by_races",
             "filter_drivers_by_results", "filter_seasons_by_year", "filter_status_by_results"}],
      [module |-> "data_enrichment", names |->
            {"add_extra_info_on_circuits", "fill_circuit_extra_info", "add_extra_info_on_races",
             "fill_races_distance_km", "add_status_dnf_categories"}],
      [module |-> "features", names |->
            {"build_driver_race_base", "build_drivers_performance",
             "build_constructors_performance", "build_sprint_performance",
             "build_qualifying_performance", "build_driver_circuits_performance"}]>>

\* the functions main() calls, in the order of its body
MainCalls ==
    <<"download_dataset", "create_processed_folder", "filter_races_by_year",
      "filter_table_by_race_ids", "filter_circuits_by_races", "filter_constructors_by_results",
      "filter_drivers_by_results", "filter_seasons_by_year", "filter_status_by_results",
      "add_extra_info_on_circuits", "fill_circuit_extra_info", "add_extra_info_on_races",
      "fill_races_distance_km", "add_status_dnf_categories", "build_driver_race_base",
      "build_drivers_performance", "build_constructors_performance", "build_sprint_performance",
      "build_qualifying_performance", "build_driver_circuits_performance">>

\* executing "from module import names": the module is loaded (its own imports
\* first), then every name is looked up in it
RECURSIVE ExecImport(_)
ExecImport(stmt) ==
    LET m == stmt.module
        inner == ModuleImports(m)
        failed == {k \in 1..Len(inner) : ExecImport(inner[k]) # "ok"}
    IN  IF ~ModuleCompiles(m) THEN "SyntaxError"
        ELSE IF failed # {} THEN ExecImport(inner[CHOOSE k \in failed : \A j \in failed : k <= j])
        ELSE IF stmt.names \subseteq ModuleDefs(m) THEN "ok"
        ELSE "ImportError"

\* the names bound in main.py's namespace once its imports have run
MainNamespace == UNION {MainImports[k].names : k \in 1..Len(MainImports)}

Idle == {"idle", "done", "returned", "raised"}

\* python main.py, started in a fresh working directory session: the outcome of
\* its imports does not depend on the folders
MainStart ==
    /\ mainStatus = "not_started"
    /\ pc = "idle"
    /\ runs = 0
    /\ mainStatus' = "importing"
    /\ mainPc' = 1
    /\ UNCHANGED <<fs, kaggle, pc, i, runs, recent_race_ids, ret>>

MainImport ==
    /\ mainStatus = "importing"
    /\ LET res == ExecImport(MainImports[mainPc])
       IN  IF res = "ok"
           THEN /\ mainStatus' = IF mainPc = Len(MainImports) THEN "running" ELSE "importing"
                /\ mainPc' = IF mainPc = Len(MainImports) THEN mainPc ELSE mainPc + 1
           ELSE /\ mainStatus' = res
                /\ mainPc' = mainPc
    /\ UNCHANGED <<fs, kaggle, pc, i, runs, recent_race_ids, ret>>

\* the interpreter prints the traceback and exits
MainExit ==
    /\ mainStatus \in {"ImportError", "SyntaxError"}
    /\ mainStatus' = "not_started"
    /\ mainPc' = 0
    /\ ret' = [Call("main", "main", <<mainPc>>) EXCEPT !.kind = mainStatus]
    /\ UNCHANGED <<fs, kaggle, pc, i, runs, recent_race_ids>>

----------------------------------------------------------------------------
\* The stage sequence of main(): steps 1 to 5

race_tables ==
    <<<<"constructor_results", "constructor_results.csv">>,
      <<"constructor_standings", "constructor_standings.csv">>,
      <<"driver_standings", "driver_standings.csv">>,
      <<"lap_times", "lap_times.csv">>,
      <<"pit_stops", "pit_stops.csv">>,
      <<"qualifying", "qualifying.csv">>,
      <<"results", "results.csv">>,
      <<"sprint_results", "sprint_results.csv">>>>

\* a stage was called: the folders and the observation are its result
Called(res, next) ==
    /\ fs' = res.fs
    /\ ret' = res.ret
    /\ pc' = next

Step1_Download ==
    /\ mainStatus = "not_started"
    /\ pc \in Idle
    /\ runs < MaxRuns
    /\ runs' = runs + 1
    /\ \E outcome \in DownloadOutcomes : Called(download_dataset(fs, kaggle, outcome), "step2")
    /\ UNCHANGED <<kaggle, i, recent_race_ids, mainStatus, mainPc>>

\* csv_files = sorted(data_raw_path.glob("*.csv")); if not csv_files: return
Step2_ListCsv ==
    /\ pc = "step2"
    /\ pc' = IF DOMAIN fs.raw = {} THEN "returned" ELSE "step3"
    /\ UNCHANGED <<fs, kaggle, i, runs, recent_race_ids, ret, mainStatus, mainPc>>

Step3_ProcessedFolder ==
    /\ pc = "step3"
    /\ \/ Called(create_processed_folder(fs), "step4_1")
       \/ Called(dc_create_processed_folder(fs), "step4_1")
    /\ UNCHANGED <<kaggle, i, runs, recent_race_ids, mainStatus, mainPc>>

Step4_1_FilterRaces ==
    /\ pc = "step4_1"
    /\ \E start_year \in YearArgs, end_year \in YearArgs :
          \/ Called(filter_races_by_year(fs, start_year, end_year), "step4_2")
          \/ LET res == dc_filter_races_by_year(fs, start_year, end_year)
             IN  Called(res, IF res.ret.kind = "raise" THEN "raised" ELSE "step4_2")
    /\ UNCHANGED <<kaggle, i, runs, recent_race_ids, mainStatus, mainPc>>

\* races_df = pd.read_csv(races_cleaned_path); read_csv(None) raises
Step4_2_RaceIds ==
    /\ pc = "step4_2"
    /\ IF ret.kind = "None"
       THEN /\ pc' = "raised"
            /\ UNCHANGED <<i, recent_race_ids>>
       ELSE /\ pc' = "step4_3"
            /\ i' = 1
            /\ recent_race_ids' = Col(fs[ret.dir][ret.name], "raceId")
    /\ UNCHANGED <<fs, kaggle, runs, ret, mainStatus, mainPc>>

Step4_3_FilterTable ==
    /\ pc = "step4_3"
    /\ LET res == filter_table_by_race_ids(fs, race_tables[i][1], recent_race_ids, race_tables[i][2])
       IN  Called(res, IF res.ret.kind = "raise" THEN "raised"
                       ELSE IF i = Len(race_tables) THEN "step5_circuits" ELSE "step4_3")
    /\ i' = IF i = Len(race_tables) THEN i ELSE i + 1
    /\ UNCHANGED <<kaggle, runs, recent_race_ids, mainStatus, mainPc>>

Step5_Circuits ==
    /\ pc = "step5_circuits"
    /\ \/ Called(filter_circuits_by_races(fs), "step5_constructors")
       \/ LET res == dc_filter_circuits_by_races(fs)
          IN  Called(res, IF res.ret.kind = "raise" THEN "raised" ELSE "step5_constructors")
    /\ UNCHANGED <<kaggle, i, runs, recent_race_ids, mainStatus, mainPc>>

Step5_Constructors ==
    /\ pc = "step5_constructors"
    /\ Called(filter_constructors_by_races(fs), "step5_drivers")
    /\ UNCHANGED <<kaggle, i, runs, recent_race_ids, mainStatus, mainPc>>

Step5_Drivers ==
    /\ pc = "step5_drivers"
    /\ Called(filter_drivers_by_races(fs), "step5_seasons")
    /\ UNCHANGED <<kaggle, i, runs, recent_race_ids, mainStatus, mainPc>>

Step5_Seasons ==
    /\ pc = "step5_seasons"
    /\ \/ Called(filter_seasons_by_year(fs), "step5_status")
       \/ LET res == dc_filter_seasons_by_year(fs)
          IN  Called(res, IF res.ret.kind = "raise" THEN "raised" ELSE "step5_status")
    /\ UNCHANGED <<kaggle, i, runs, recent_race_ids, mainStatus, mainPc>>

Step5_Status ==
    /\ pc = "step5_status"
    /\ Called(filter_status_by_results(fs), "step6_1a")
    /\ UNCHANGED <<kaggle, i, runs, recent_race_ids, mainStatus, mainPc>>

----------------------------------------------------------------------------
\* The stage sequence of main(): steps 6 and 7

\* x = stage(); if x is None: return
\* the value of the stage not looked at
CalledOrReturn_unchecked(res, next) ==
    Called(res, IF res.ret.kind = "raise" THEN "raised" ELSE next)

CalledOrReturn(res, next) ==
    Called(res, IF res.ret.kind = "None" THEN "returned"
                ELSE IF res.ret.kind = "raise" THEN "raised" ELSE next)

Step6_1_AddCircuits ==
    /\ pc = "step6_1a"
    /\ CalledOrReturn(add_extra_info_on_circuits(fs), "step6_1b")
    /\ UNCHANGED <<kaggle, i, runs, recent_race_ids, mainStatus, mainPc>>

Step6_1_FillCircuits ==
    /\ pc = "step6_1b"
    /\ CalledOrReturn(fill_circuit_extra_info(fs), "step6_2a")
    /\ UNCHANGED <<kaggle, i, runs, recent_race_ids, mainStatus, mainPc>>

Step6_2_AddRaces ==
    /\ pc = "step6_2a"
    /\ CalledOrReturn(add_extra_info_on_races(fs), "step6_2b")
    /\ UNCHANGED <<kaggle, i, runs, recent_race_ids, mainStatus, mainPc>>

Step6_2_FillRaces ==
    /\ pc = "step6_2b"
    /\ CalledOrReturn(fill_races_distance_km(fs), "step6_3")
    /\ UNCHANGED <<kaggle, i, runs, recent_race_ids, mainStatus, mainPc>>

Step6_3_Status ==
    /\ pc = "step6_3"
    /\ CalledOrReturn(add_status_dnf_categories(fs), "step7_2")
    /\ UNCHANGED <<kaggle, i, runs, recent_race_ids, mainStatus, mainPc>>

\* step 7.1 names build_driver_race_base, which no module defines; the caller
\* goes on with the five builders features.py defines
Step7_2_Drivers ==
    /\ pc = "step7_2"
    /\ CalledOrReturn(build_drivers_performance(fs), "step7_3")
    /\ UNCHANGED <<kaggle, i, runs, recent_race_ids, mainStatus, mainPc>>

Step7_3_Constructors ==
    /\ pc = "step7_3"
    /\ CalledOrReturn(build_constructors_performance(fs), "step7_4")
    /\ UNCHANGED <<kaggle, i, runs, recent_race_ids, mainStatus, mainPc>>

Step7_4_Sprint ==
    /\ pc = "step7_4"
    /\ CalledOrReturn(build_sprint_performance(fs), "step7_5")
    /\ UNCHANGED <<kaggle, i, runs, recent_race_ids, mainStatus, mainPc>>

Step7_5_Qualifying ==
    /\ pc = "step7_5"
    /\ CalledOrReturn(build_qualifying_performance(fs), "step7_6")
    /\ UNCHANGED <<kaggle, i, runs, recent_race_ids, mainStatus, mainPc>>

Step7_6_DriverCircuits ==
    /\ pc = "step7_6"
    /\ CalledOrReturn(build_driver_circuits_performance(fs), "done")
    /\ UNCHANGED <<kaggle, i, runs, recent_race_ids, mainStatus, mainPc>>

----------------------------------------------------------------------------
\* Calls a user makes between runs (notebooks, tests)

LoadCsv ==
    /\ mainStatus = "not_started"
    /\ pc \in Idle
    /\ \E typed \in TypedInputs : Called(load_csv(fs, typed), pc)
    /\ UNCHANGED <<kaggle, i, runs, recent_race_ids, mainStatus, mainPc>>

LoadCleanedCsv ==
    /\ mainStatus = "not_started"
    /\ pc \in Idle
    /\ \E typed \in TypedInputs : Called(load_cleaned_csv(fs, typed), pc)
    /\ UNCHANGED <<kaggle, i, runs, recent_race_ids, mainStatus, mainPc>>

CopyRawToProcessed ==
    /\ mainStatus = "not_started"
    /\ pc \in Idle
    /\ Called(copy_raw_to_processed(fs), pc)
    /\ UNCHANGED <<kaggle, i, runs, recent_race_ids, mainStatus, mainPc>>

\* filter_table_by_race_ids called on its own, with the race ids of the last run,
\* for a table that has a raceId column and for one that has none
SideTables == {<<"results", "results.csv">>, <<"circuits", "circuits.csv">>}

CallFilterTable ==
    /\ mainStatus = "not_started"
    /\ pc \in Idle
    /\ \E t \in SideTables : Called(filter_table_by_race_ids(fs, t[1], recent_race_ids, t[2]), pc)
    /\ UNCHANGED <<kaggle, i, runs, recent_race_ids, mainStatus, mainPc>>

\* an enrichment function called on its own, in any order
CallEnrichment ==
    /\ mainStatus = "not_started"
    /\ pc \in Idle
    /\ \/ Called(add_extra_info_on_circuits(fs), pc)
       \/ Called(de_add_extra_info_on_circuits(fs), pc)
       \/ Called(fill_circuit_extra_info(fs), pc)
       \/ Called(add_extra_info_on_races(fs), pc)
       \/ Called(fill_races_distance_km(fs), pc)
       \/ Called(add_status_dnf_categories(fs), pc)
    /\ UNCHANGED <<kaggle, i, runs, recent_race_ids, mainStatus, mainPc>>

\* the builders main's step 7 calls, with the table each writes
Builders ==
    <<"build_drivers_performance", "build_constructors_performance", "build_sprint_performance",
      "build_qualifying_performance", "build_driver_circuits_performance">>

PerformanceFiles ==
    <<"drivers_performance.csv", "constructors_performance.csv", "sprint_performance.csv",
      "qualifying_performance.csv", "circuits_performance.csv">>

Build(k, f) ==
    CASE k = 1 -> build_drivers_performance(f)
      [] k = 2 -> build_constructors_performance(f)
      [] k = 3 -> build_sprint_performance(f)
      [] k = 4 -> build_qualifying_performance(f)
      [] OTHER -> build_driver_circuits_performance(f)

\* a feature builder called on its own, while data/processed holds no
\* performance table of another builder
CallFeature ==
    /\ mainStatus = "not_started"
    /\ pc \in Idle
    /\ \E k \in 1..Len(Builders) :
            /\ \A j \in 1..Len(Builders) :
                    PerformanceFiles[j] \in DOMAIN fs.processed => j = k
            /\ Called(Build(k, fs), pc)
    /\ UNCHANGED <<kaggle, i, runs, recent_race_ids, mainStatus, mainPc>>

\* the reliability columns, which main does not add, added on their own
CallReliability ==
    /\ mainStatus = "not_started"
    /\ pc \in Idle
    /\ Called(add_constructors_reliability_features(fs), pc)
    /\ UNCHANGED <<kaggle, i, runs, recent_race_ids, mainStatus, mainPc>>

\* the summary table, which main does not build, called on its own
CallSummary ==
    /\ mainStatus = "not_started"
    /\ pc \in Idle
    /\ Called(build_drivers_performance_summary(fs), pc)
    /\ UNCHANGED <<kaggle, i, runs, recent_race_ids, mainStatus, mainPc>>

----------------------------------------------------------------------------

\* the working directory before the first run: nothing, or some of the folders
InitDirs == {{}, {"root"}, {"root", "data"}, {"root", "data", "raw"}}

Init ==
    /\ fs \in {[dirs |-> d, raw |-> <<>>, processed |-> <<>>] : d \in InitDirs}
    /\ kaggle \in Datasets
    /\ pc = "idle"
    /\ i = 1
    /\ runs = 0
    /\ recent_race_ids = {}
    /\ ret = R0
    /\ mainStatus = "not_started"
    /\ mainPc = 0

Next ==
    \/ MainStart
    \/ MainImport
    \/ MainExit
    \/ Step1_Download
    \/ Step2_ListCsv
    \/ Step3_ProcessedFolder
    \/ Step4_1_FilterRaces
    \/ Step4_2_RaceIds
    \/ Step4_3_FilterTable
    \/ Step5_Circuits
    \/ Step5_Constructors
    \/ Step5_Drivers
    \/ Step5_Seasons
    \/ Step5_Status
    \/ Step6_1_AddCircuits
    \/ Step6_1_FillCircuits
    \/ Step6_2_AddRaces
    \/ Step6_2_FillRaces
    \/ Step6_3_Status
    \/ Step7_2_Drivers
    \/ Step7_3_Constructors
    \/ Step7_4_Sprint
    \/ Step7_5_Qualifying
    \/ Step7_6_DriverCircuits
    \/ LoadCsv
    \/ LoadCleanedCsv
    \/ CopyRawToProcessed
    \/ CallEnrichment
    \/ CallFilterTable
    \/ CallFeature
    \/ CallSummary
    \/ CallReliability

Spec == Init /\ [][Next]_vars

----------------------------------------------------------------------------
\* Properties

\* the k-th smallest element of a set of row numbers
Kth(S, k) == CHOOSE j \in S : Cardinality({x \in S : x < j}) = k - 1

\* out holds the rows of src numbered in S, each once, in the order of src,
\* under the header of src
IsSelection(out, src, S) ==
    /\ out.cols = src.cols
    /\ Len(out.rows) = Cardinality(S)
    /\ \A k \in 1..Len(out.rows) : out.rows[k] = src.rows[Kth(S, k)]

RowNumbers(t) == 1..Len(t.rows)

\* C1: python main.py runs its stages to the end: it never stops on an import
\* or on a name that no module defines
C1_MainReachesLastStage == mainStatus \notin {"ImportError", "SyntaxError"}

\* C2: after filter_races_by_year(start_year, end_year) on a readable races.csv,
\* races_cleaned.csv exists, holds exactly the rows of races.csv with
\* start_year <= year <= end_year, each once and in file order, and its path is returned
C2_FilterRacesByYear ==
    (ret.op = "filter_races_by_year" /\ FileExists(fs, "raw", "races.csv")) =>
        /\ ret.kind = "path" /\ ret.dir = "processed" /\ ret.name = "races_cleaned.csv"
        /\ FileExists(fs, "processed", "races_cleaned.csv")
        /\ LET raw == fs.raw["races.csv"]
           IN  IsSelection(fs.processed["races_cleaned.csv"], raw,
                           {j \in RowNumbers(raw) :
                                ret.args[1] <= raw.rows[j].year /\ raw.rows[j].year <= ret.args[2]})

\* a call that kept the two 2021 races of the unordered dataset and dropped the 2019 race
C2_Witness ==
    /\ ret.op = "filter_races_by_year" /\ ret.kind = "path"
    /\ kaggle = DatasetB
    /\ ret.args = <<2020, 2021>>
    /\ Len(fs.processed["races_cleaned.csv"].rows) = 2
    /\ Len(fs.raw["races.csv"].rows) = 3

\* C3: after filter_circuits_by_races() on readable inputs, circuits_cleaned.csv holds
\* exactly the rows of circuits.csv whose circuitId occurs in races_cleaned.csv, each
\* once, and its path is returned
C3_FilterCircuitsByRaces ==
    (/\ ret.op = "filter_circuits_by_races"
     /\ FileExists(fs, "raw", "circuits.csv")
     /\ FileExists(fs, "processed", "races_cleaned.csv")) =>
        /\ ret.kind = "path" /\ ret.dir = "processed" /\ ret.name = "circuits_cleaned.csv"
        /\ FileExists(fs, "processed", "circuits_cleaned.csv")
        /\ LET raw == fs.raw["circuits.csv"]
               races == fs.processed["races_cleaned.csv"]
           IN  IsSelection(fs.processed["circuits_cleaned.csv"], raw,
                           {j \in RowNumbers(raw) :
                                \E k \in RowNumbers(races) :
                                    races.rows[k].circuitId = raw.rows[j].circuitId})

\* two cleaned races on the same circuit: that circuit is kept once, the others dropped
C3_Witness ==
    /\ ret.op = "filter_circuits_by_races" /\ ret.kind = "path"
    /\ Len(fs.processed["races_cleaned.csv"].rows) = 2
    /\ Cardinality(Col(fs.processed["races_cleaned.csv"], "circuitId")) = 1
    /\ Len(fs.processed["circuits_cleaned.csv"].rows) = 1
    /\ Len(fs.raw["circuits.csv"].rows) = 3

\* C4: after filter_table_by_race_ids(table_name, race_ids, raw_filename) on a readable
\* raw table with a raceId column, {table_name}_cleaned.csv holds exactly the raw rows
\* whose raceId is in race_ids, with the raw header and row order; with no such row the
\* file is still written, and the path is returned
C4_FilterTableByRaceIds ==
    (/\ ret.op = "filter_table_by_race_ids"
     /\ FileExists(fs, "raw", ret.args[3])
     /\ ret.kind # "raise") =>
        /\ ret.kind = "path" /\ ret.dir = "processed" /\ ret.name = CleanedName(ret.args[1])
        /\ FileExists(fs, "processed", ret.name)
        /\ LET raw == fs.raw[ret.args[3]]
           IN  IsSelection(fs.processed[ret.name], raw,
                           {j \in RowNumbers(raw) : raw.rows[j].raceId \in ret.args[2]})

\* a call with an empty race_ids on a raw table that has rows: the output is written, empty
C4_Witness ==
    /\ ret.op = "filter_table_by_race_ids" /\ ret.kind = "path"
    /\ ret.args[2] = {}
    /\ Len(fs.raw[ret.args[3]].rows) > 0
    /\ FileExists(fs, "processed", ret.name)
    /\ fs.processed[ret.name].rows = <<>>
    /\ fs.processed[ret.name].cols = fs.raw[ret.args[3]].cols

\* C7: download_dataset on a missing or empty destination, with the download and the
\* copy succeeding, creates the destination, holds every file of the dataset folder
\* under its name with the same content, and returns the destination
C7_DownloadCopiesDataset ==
    (ret.op = "download_dataset" /\ ret.copied = "all") =>
        /\ ret.destWas \in {"missing", "empty"}
        /\ "raw" \in fs.dirs
        /\ DOMAIN fs.raw = DOMAIN kaggle
        /\ \A n \in DOMAIN kaggle : fs.raw[n] = kaggle[n]
        /\ ret.kind = "path" /\ ret.dir = "raw" /\ ret.name = ""

\* a successful download into a destination that did not exist
C7_Witness ==
    /\ ret.op = "download_dataset" /\ ret.copied = "all" /\ ret.destWas = "missing"
    /\ "races.csv" \in DOMAIN fs.raw

\* C8: download_dataset skips the download only when the destination already holds the
\* dataset
C8_SkipsOnlyWhenDatasetExists ==
    (ret.op = "download_dataset" /\ ~ret.kaggleCalled) =>
        /\ DOMAIN kaggle \subseteq DOMAIN fs.raw
        /\ \A n \in DOMAIN kaggle : fs.raw[n] = kaggle[n]

\* C9: load_csv and load_cleaned_csv return the table of the file named by the stripped
\* input when the folder holds it, and None, without raising, when it does not
C9_LoadReturnsTableOrNone ==
    (ret.op \in {"load_csv", "load_cleaned_csv"}) =>
        LET d == IF ret.op = "load_csv" THEN "raw" ELSE "processed"
            file_name == strip(ret.args)
        IN  IF Len(file_name) = 1 /\ FileExists(fs, d, file_name[1])
            THEN ret.kind = "df" /\ ret.df = fs[d][file_name[1]]
            ELSE ret.kind = "None"

\* C10: create_processed_folder returns the processed folder, which exists after the
\* call, and changes no file: what the two data folders held they still hold, and no
\* folder is removed
C10_CreateProcessedFolder ==
    [][pc = "step3" =>
        /\ ret'.op = "create_processed_folder"
        /\ ret'.kind = "path" /\ ret'.dir = "processed" /\ ret'.name = ""
        /\ "processed" \in fs'.dirs
        /\ fs.dirs \subseteq fs'.dirs
        /\ fs'.processed = fs.processed
        /\ fs'.raw = fs.raw]_vars

\* the call made on a processed folder that already holds cleaned files
C10_Witness ==
    /\ ret.op = "create_processed_folder"
    /\ runs = 2
    /\ "races_cleaned.csv" \in DOMAIN fs.processed
    /\ "circuits_cleaned.csv" \in DOMAIN fs.processed

\* child, when data/processed holds it, has every value of its key column in parent
ClosedOver(child, key, parent) ==
    FileExists(fs, "processed", child) =>
        /\ FileExists(fs, "processed", parent)
        /\ Col(fs.processed[child], key) \subseteq Col(fs.processed[parent], key)

AfterStep5 ==
    pc \in {"step6_1a", "step6_1b", "step6_2a", "step6_2b", "step6_3",
            "step7_2", "step7_3", "step7_4", "step7_5", "step7_6", "done"}

\* C5: once steps 4 and 5 have run, and through steps 6 and 7, every raceId of a
\* race-based cleaned table is in races_cleaned, every circuitId of circuits_cleaned and
\* every year of seasons_cleaned is in races_cleaned, every driverId of drivers_cleaned
\* and statusId of status_cleaned is in results_cleaned, and every constructorId of
\* constructors_cleaned is in constructor_results_cleaned
C5_CleanedTablesClosed ==
    AfterStep5 =>
        /\ \A k \in 1..Len(race_tables) :
                ClosedOver(CleanedName(race_tables[k][1]), "raceId", "races_cleaned.csv")
        /\ ClosedOver("circuits_cleaned.csv", "circuitId", "races_cleaned.csv")
        /\ ClosedOver("seasons_cleaned.csv", "year", "races_cleaned.csv")
        /\ ClosedOver("drivers_cleaned.csv", "driverId", "results_cleaned.csv")
        /\ ClosedOver("status_cleaned.csv", "statusId", "results_cleaned.csv")
        /\ ClosedOver("constructors_cleaned.csv", "constructorId", "constructor_results_cleaned.csv")

\* the end of step 7 of a run that dropped a race, its results, a driver that only has
\* standings, a circuit, seasons and a status
C5_Witness ==
    /\ pc = "done"
    /\ ret.op = "build_driver_circuits_performance"
    /\ Len(fs.processed["races_cleaned.csv"].rows) = 2
    /\ Len(fs.processed["results_cleaned.csv"].rows) = 4
    /\ Col(fs.processed["drivers_cleaned.csv"], "driverId") = {1, 2}
    /\ Col(fs.processed["driver_standings_cleaned.csv"], "driverId") = {1, 3}
    /\ Len(fs.processed["circuits_cleaned.csv"].rows) < Len(fs.raw["circuits.csv"].rows)
    /\ Len(fs.processed["status_cleaned.csv"].rows) < Len(fs.raw["status.csv"].rows)
    /\ HasCol(fs.processed["status_cleaned.csv"], "dnf_category")

\* C6: after the download step no stage creates, changes or deletes a file of data/raw:
\* a step that is not the download leaves data/raw as it was and creates folders only
\* on the way to data/processed
C6_RawUntouched ==
    [][runs' = runs =>
        /\ fs'.raw = fs.raw
        /\ fs.dirs \subseteq fs'.dirs
        /\ (fs'.dirs \ fs.dirs) \subseteq Parents("processed")]_vars

\* a complete run, its enrichment and its five performance tables written, with
\* data/raw still the downloaded dataset
C6_Witness ==
    /\ pc = "done"
    /\ fs.raw = kaggle
    /\ \A k \in 1..Len(PerformanceFiles) : PerformanceFiles[k] \in DOMAIN fs.processed
    /\ HasCol(fs.processed["circuits_cleaned.csv"], "length_km")
    /\ HasCol(fs.processed["races_cleaned.csv"], "race_distance_km")
    /\ fs.processed["races_cleaned.csv"] # fs.raw["races.csv"]

DnfCategories == {"crash", "mechanical", "other_dnf", "no_dnf"}

\* C11: a call of add_status_dnf_categories that returns the path leaves the rows of
\* status_cleaned.csv in place with their statusId and status, keeps the header it found
\* in front, and gives every row one dnf_category of the four and the four flags, of
\* which the one named by dnf_category is True and the other three False
C11_OneCategoryPerStatus ==
    [][(ret'.op = "add_status_dnf_categories" /\ ret'.kind = "path") =>
        LET old == fs.processed["status_cleaned.csv"]
            new == fs'.processed["status_cleaned.csv"]
        IN  /\ Len(new.rows) = Len(old.rows)
            /\ SubSeq(new.cols, 1, Len(old.cols)) = old.cols
            /\ \A k \in 1..Len(new.rows) :
                   /\ new.rows[k].statusId = old.rows[k].statusId
                   /\ new.rows[k].status = old.rows[k].status
                   /\ new.rows[k].dnf_category \in DnfCategories
                   /\ new.rows[k].is_crash = (new.rows[k].dnf_category = "crash")
                   /\ new.rows[k].is_mechanical = (new.rows[k].dnf_category = "mechanical")
                   /\ new.rows[k].is_other_dnf = (new.rows[k].dnf_category = "other_dnf")
                   /\ new.rows[k].is_no_dnf = (new.rows[k].dnf_category = "no_dnf")]_vars

\* the call made on a status_cleaned.csv whose five rows fall into all four categories
C11_Witness ==
    /\ ret.op = "add_status_dnf_categories" /\ ret.kind = "path"
    /\ Len(fs.processed["status_cleaned.csv"].rows) = 5
    /\ Col(fs.processed["status_cleaned.csv"], "dnf_category") = DnfCategories

\* one row of t for each key, and no other row
OneRowPerKey(t, key, keys) ==
    /\ Len(t.rows) = Cardinality(keys)
    /\ {t.rows[k][key] : k \in 1..Len(t.rows)} = keys

\* the (driverId, circuitId) pairs of the results joined to the races
ResultPairs(f) ==
    LET results_df == f.processed["results_cleaned.csv"]
        races_df == f.processed["races_cleaned.csv"]
    IN  {p \in {<<results_df.rows[k].driverId,
                  Lookup(races_df, "raceId", results_df.rows[k].raceId, "circuitId")>> :
                    k \in 1..Len(results_df.rows)} : p[1] # NA /\ p[2] # NA}

\* C12: a performance table just built has exactly one row for each entity key of
\* its source table: a driverId of results_cleaned (drivers), a constructorId of
\* results_cleaned (constructors), a driverId of qualifying_cleaned or of
\* sprint_results_cleaned, a (driverId, circuitId) pair of the results joined to the
\* races, and, for the summary, a row of drivers_performance in the same order.
C12_OneRowPerEntity ==
    ret.kind = "path" =>
        /\ ret.op = "build_drivers_performance" =>
               OneRowPerKey(fs.processed["drivers_performance.csv"], "driverId",
                            Col(fs.processed["results_cleaned.csv"], "driverId") \ {NA})
        /\ ret.op = "build_constructors_performance" =>
               OneRowPerKey(fs.processed["constructors_performance.csv"], "constructorId",
                            Col(fs.processed["results_cleaned.csv"], "constructorId") \ {NA})
        /\ ret.op = "build_qualifying_performance" =>
               OneRowPerKey(fs.processed["qualifying_performance.csv"], "driverId",
                            Col(fs.processed["qualifying_cleaned.csv"], "driverId") \ {NA})
        /\ ret.op = "build_sprint_performance" =>
               OneRowPerKey(fs.processed["sprint_performance.csv"], "driverId",
                            Col(fs.processed["sprint_results_cleaned.csv"], "driverId") \ {NA})
        /\ ret.op = "build_driver_circuits_performance" =>
               LET t == fs.processed["circuits_performance.csv"]
               IN  /\ Len(t.rows) = Cardinality(ResultPairs(fs))
                   /\ {<<t.rows[k].driverId, t.rows[k].circuitId>> : k \in 1..Len(t.rows)}
                          = ResultPairs(fs)
        /\ ret.op = "build_drivers_performance_summary" =>
               LET t == fs.processed["drivers_performance_summary.csv"]
                   d == fs.processed["drivers_performance.csv"]
               IN  /\ Len(t.rows) = Len(d.rows)
                   /\ \A k \in 1..Len(t.rows) : t.rows[k].driverId = d.rows[k].driverId

\* the summary built after a run in which two drivers raced on two circuits each
C12_Witness ==
    /\ ret.op = "build_drivers_performance_summary" /\ ret.kind = "path"
    /\ Len(fs.processed["drivers_performance_summary.csv"].rows) = 2
    /\ Len(fs.processed["circuits_performance.csv"].rows) = 4
    /\ Len(fs.processed["results_cleaned.csv"].rows) = 4

\* C13: after fill_races_distance_km has written races_cleaned, the race_distance_km
\* of each race is the length_km of its own circuit times the largest laps among
\* the results of that race with statusId 1, and is missing exactly when the
\* circuit has no length_km or the race has no such result.
C13_RaceDistance ==
    (/\ ret.op = "fill_races_distance_km"
     /\ ret.kind \in {"path", "None"}
     /\ FileExists(fs, "processed", "races_cleaned.csv")
     /\ FileExists(fs, "processed", "circuits_cleaned.csv")
     /\ FileExists(fs, "processed", "results_cleaned.csv")) =>
        LET races == fs.processed["races_cleaned.csv"].rows
            circuits == fs.processed["circuits_cleaned.csv"].rows
            results == fs.processed["results_cleaned.csv"].rows
        IN  \A k \in 1..Len(races) :
                LET lengths == {circuits[j].length_km :
                                   j \in {x \in 1..Len(circuits) :
                                             circuits[x].circuitId = races[k].circuitId}} \ {NA}
                    laps == {results[j].laps :
                                j \in {x \in 1..Len(results) :
                                          /\ results[x].raceId = races[k].raceId
                                          /\ results[x].statusId = 1}} \ {NA}
                IN  /\ (races[k].race_distance_km = NA) <=> (lengths = {} \/ laps = {})
                    /\ races[k].race_distance_km # NA =>
                           \E l \in lengths : \E n \in laps :
                               /\ \A m \in laps : m <= n
                               /\ races[k].race_distance_km = l * n

\* a run with a race that has a distance and a race on a circuit of known length
\* that nobody finished
C13_Witness ==
    /\ ret.op = "fill_races_distance_km" /\ ret.kind = "path"
    /\ \E k \in 1..Len(fs.processed["races_cleaned.csv"].rows) :
           fs.processed["races_cleaned.csv"].rows[k].race_distance_km = 263900
    /\ \E k \in 1..Len(fs.processed["races_cleaned.csv"].rows) :
           /\ fs.processed["races_cleaned.csv"].rows[k].race_distance_km = NA
           /\ length_of(fs.processed["circuits_cleaned.csv"],
                        fs.processed["races_cleaned.csv"].rows[k].circuitId) # NA

\* C14: add_extra_info_on_circuits puts length_km, is_night_race and track_type, in
\* that order, right after 'alt', every cell of them missing; the other columns keep
\* their order and their cells, and the table keeps its rows.
C14_InsertAfterAlt ==
    [][(ret'.op = "add_extra_info_on_circuits" /\ ret'.kind = "path" /\ fs' # fs) =>
        LET old == fs.processed["circuits_cleaned.csv"]
            new == fs'.processed["circuits_cleaned.csv"]
            alt == CHOOSE k \in 1..Len(old.cols) : old.cols[k] = "alt"
        IN  /\ new.cols = SubSeq(old.cols, 1, alt)
                              \o <<"length_km", "is_night_race", "track_type">>
                              \o SubSeq(old.cols, alt + 1, Len(old.cols))
            /\ Len(new.rows) = Len(old.rows)
            /\ \A k \in 1..Len(new.rows) :
                   /\ \A c \in DOMAIN old.rows[k] : new.rows[k][c] = old.rows[k][c]
                   /\ new.rows[k].length_km = NA
                   /\ new.rows[k].is_night_race = NA
                   /\ new.rows[k].track_type = NA
            /\ \A n \in DOMAIN fs.processed \ {"circuits_cleaned.csv"} :
                   fs'.processed[n] = fs.processed[n]]_vars

\* the three columns just added, between 'alt' and 'url', to a table of two circuits
C14_Witness ==
    /\ ret.op = "add_extra_info_on_circuits" /\ ret.kind = "path"
    /\ fs.processed["circuits_cleaned.csv"].cols
           = <<"circuitId", "name", "alt", "length_km", "is_night_race", "track_type", "url">>
    /\ Len(fs.processed["circuits_cleaned.csv"].rows) = 2
    /\ \A k \in 1..2 : fs.processed["circuits_cleaned.csv"].rows[k].track_type = NA

ExtraColumns == {"length_km", "is_night_race", "track_type"}

\* C15: fill_circuit_extra_info gives each row whose circuitId is a key of the
\* dictionary the entry of that key (circuit 1: 5.278 km, day, balanced; circuit
\* 3: 5.412 km, night, balanced), with a track_type among technical, high_speed and
\* balanced, and leaves the three columns missing in every other row; the rows,
\* the order of the columns and the cells of the other columns stay as they were.
C15_FillFromDictionary ==
    [][(ret'.op = "fill_circuit_extra_info" /\ ret'.kind = "path") =>
        LET old == fs.processed["circuits_cleaned.csv"]
            new == fs'.processed["circuits_cleaned.csv"]
            extra(row) == [c \in ExtraColumns |-> row[c]]
        IN  /\ Len(new.rows) = Len(old.rows)
            /\ SelectSeq(new.cols, LAMBDA c : c \notin ExtraColumns)
                   = SelectSeq(old.cols, LAMBDA c : c \notin ExtraColumns)
            /\ (\A c \in ExtraColumns : HasCol(old, c)) => new.cols = old.cols
            /\ \A c \in ExtraColumns : HasCol(new, c)
            /\ \A k \in 1..Len(new.rows) :
                   /\ \A c \in DOMAIN old.rows[k] \ ExtraColumns : new.rows[k][c] = old.rows[k][c]
                   /\ extra(new.rows[k]) =
                          CASE new.rows[k].circuitId = 1 ->
                                   [length_km |-> 5278, is_night_race |-> FALSE, track_type |-> "balanced"]
                            [] new.rows[k].circuitId = 3 ->
                                   [length_km |-> 5412, is_night_race |-> TRUE, track_type |-> "balanced"]
                            [] OTHER -> [c \in ExtraColumns |-> NA]
                   /\ \/ isna(new.rows[k].track_type)
                      \/ new.rows[k].track_type \in {"technical", "high_speed", "balanced"}]_vars

\* a table just filled: a day circuit and a night circuit of the dictionary, and a
\* circuit the dictionary does not know
C15_Witness ==
    /\ ret.op = "fill_circuit_extra_info" /\ ret.kind = "path"
    /\ LET t == fs.processed["circuits_cleaned.csv"]
       IN  /\ \E k \in 1..Len(t.rows) : t.rows[k].circuitId = 1 /\ t.rows[k].length_km = 5278
           /\ \E k \in 1..Len(t.rows) : t.rows[k].circuitId = 3 /\ t.rows[k].is_night_race = TRUE
           /\ \E k \in 1..Len(t.rows) : t.rows[k].circuitId = 2 /\ t.rows[k].length_km = NA
           /\ t.cols = <<"circuitId", "name", "alt", "length_km", "is_night_race", "track_type", "url">>

\* C16: whenever filter_seasons_by_year has written seasons_cleaned, the table is
\* the raw seasons rows, in their order, whose year is a year of races_cleaned as
\* it is now, whatever seasons_cleaned held before: after another range has been
\* filtered into races_cleaned, nothing of the earlier range is left in it.
C16_SeasonsFollowRaces ==
    [][(ret'.op = "filter_seasons_by_year" /\ ret'.kind = "path") =>
        LET raw == fs'.raw["seasons.csv"]
            years == {fs'.processed["races_cleaned.csv"].rows[k].year :
                         k \in 1..Len(fs'.processed["races_cleaned.csv"].rows)}
        IN  /\ fs'.processed["seasons_cleaned.csv"].cols = raw.cols
            /\ fs'.processed["seasons_cleaned.csv"].rows
                   = SelectSeq(raw.rows, LAMBDA row : row.year \in years)
            /\ fs'.raw = fs.raw]_vars

\* the second run, for 2021 alone, after a first run that kept the seasons 2019
\* and 2020 and whose status table, not filtered again yet, still holds 'Accident'
C16_Witness ==
    /\ ret.op = "filter_seasons_by_year" /\ ret.kind = "path"
    /\ runs = 2
    /\ Col(fs.processed["seasons_cleaned.csv"], "year") = {2021}
    /\ Col(fs.processed["races_cleaned.csv"], "year") = {2021}
    /\ FileExists(fs, "processed", "status_cleaned.csv")
    /\ 3 \in Col(fs.processed["status_cleaned.csv"], "statusId")

\* the inputs a data_loader filter reads: raw files and cleaned files
FilterInputs(r) ==
    CASE r.op = "filter_races_by_year" -> [raw |-> {"races.csv"}, processed |-> {}]
      [] r.op = "filter_table_by_race_ids" -> [raw |-> {r.args[3]}, processed |-> {}]
      [] r.op = "filter_circuits_by_races" ->
             [raw |-> {"circuits.csv"}, processed |-> {"races_cleaned.csv"}]
      [] r.op = "filter_constructors_by_races" ->
             [raw |-> {"constructors.csv"}, processed |-> {"constructor_results_cleaned.csv"}]
      [] r.op = "filter_drivers_by_races" ->
             [raw |-> {"drivers.csv"}, processed |-> {"results_cleaned.csv"}]
      [] r.op = "filter_seasons_by_year" ->
             [raw |-> {"seasons.csv"}, processed |-> {"races_cleaned.csv"}]
      [] r.op = "filter_status_by_results" ->
             [raw |-> {"status.csv"}, processed |-> {"results_cleaned.csv"}]
      [] OTHER -> [raw |-> {}, processed |-> {}]

Unreadable(f, r) ==
    \/ \E n \in FilterInputs(r).raw : ~FileExists(f, "raw", n)
    \/ \E n \in FilterInputs(r).processed : ~FileExists(f, "processed", n)

\* C17: a data_loader filter one of whose inputs cannot be read returns None, raises
\* nothing and leaves every folder and file as it was; filter_table_by_race_ids
\* given a readable table without a 'raceId' column raises ValueError and leaves
\* every folder and file as it was.
C17_FilterErrors ==
    [][ret'.module = "data_loader" =>
        /\ Unreadable(fs, ret') => (ret'.kind = "None" /\ fs' = fs)
        /\ (/\ ret'.op = "filter_table_by_race_ids"
            /\ ~Unreadable(fs, ret')
            /\ ~HasCol(fs.raw[ret'.args[3]], "raceId")) =>
               (ret'.kind = "raise" /\ ret'.exc = "ValueError" /\ fs' = fs)]_vars

\* filter_table_by_race_ids has raised ValueError on the circuits table, after a run
\* in which it returned None for the sprint results the dataset does not have
C17_Witness ==
    /\ ret.op = "filter_table_by_race_ids" /\ ret.kind = "raise" /\ ret.exc = "ValueError"
    /\ ret.args[3] = "circuits.csv"
    /\ FileExists(fs, "raw", "circuits.csv")
    /\ ~FileExists(fs, "raw", "sprint_results.csv")
    /\ FileExists(fs, "processed", "results_cleaned.csv")
    /\ ~FileExists(fs, "processed", "sprint_results_cleaned.csv")

----------------------------------------------------------------------------
\* classify_mech_crash_other applied to status texts of up to MaxWords words

MaxWords == 2

Words ==
    {Finished, PlusOneLap, Accident, Retired,
     <<"E", "N", "G", "I", "N", "E">>,
     <<"S", "p", "u", "n", " ", "O", "f", "f">>,
     <<"H", "a", "n", "d", "l", "i", "n", "g">>,
     <<"O", "I", "L", " ", "l", "e", "a", "k">>,
     <<"W", "i", "t", "h", "d", "r", "e", "w">>}

\* the texts of at most n words, a blank between two words
RECURSIVE Phrases(_)
Phrases(n) ==
    IF n = 1 THEN Words
    ELSE Phrases(n - 1) \cup {p \o <<" ">> \o w : p \in Phrases(n - 1), w \in Words}

InitClassify ==
    /\ fs = [dirs |-> {}, raw |-> <<>>, processed |-> <<>>]
    /\ kaggle = DatasetA
    /\ pc = "idle"
    /\ i = 1
    /\ runs = 0
    /\ recent_race_ids = {}
    /\ ret \in {Call("classify_mech_crash_other", "data_enrichment", <<text>>) :
                   text \in Phrases(MaxWords)}
    /\ mainStatus = "not_started"
    /\ mainPc = 0

\* status_df["status"].apply(classify_mech_crash_other), for one text
Classify ==
    /\ ret.op = "classify_mech_crash_other"
    /\ ret.kind = ""
    /\ ret' = RetStr(ret, classify_mech_crash_other(ret.args[1]))
    /\ UNCHANGED <<fs, kaggle, pc, i, runs, recent_race_ids, mainStatus, mainPc>>

NextClassify == Classify

SpecClassify == InitClassify /\ [][NextClassify]_vars

\* the text holds the letters of one of the words somewhere, in whatever case
Mentions(text, words) ==
    \E w \in words : \E k \in 0..(Len(text) - Len(w)) :
        \A j \in 1..Len(w) : lower(text[k + j]) = lower(w[j])

\* C18: classify_mech_crash_other answers 'crash' for a text that holds a crash
\* keyword, whatever the case of its letters; otherwise 'mechanical' for one that
\* holds a mechanical keyword; otherwise 'other_dnf' for one that holds one of the
\* other keywords; and 'no_dnf' for a text without keyword, such as 'Finished' or
\* '+1 Lap'.
C18_ClassifyKeywords ==
    ret.kind = "str" =>
        LET text == ret.args[1]
        IN  /\ ret.value = IF Mentions(text, crash_words) THEN "crash"
                           ELSE IF Mentions(text, mechanical_words) THEN "mechanical"
                           ELSE IF Mentions(text, other_dnf_words) THEN "other_dnf"
                           ELSE "no_dnf"
            /\ text \in {Finished, PlusOneLap} => ret.value = "no_dnf"

\* 'ENGINE Accident': a mechanical keyword in capitals before a crash keyword
C18_Witness ==
    /\ ret.kind = "str"
    /\ ret.args[1] = <<"E", "N", "G", "I", "N", "E">> \o <<" ">> \o Accident
    /\ ret.value = "crash"

\* the positions of main in its steps 6 and 7, in order
EnrichAndBuild ==
    <<"step6_1a", "step6_1b", "step6_2a", "step6_2b", "step6_3",
      "step7_2", "step7_3", "step7_4", "step7_5", "step7_6">>

\* C19: in steps 6 and 7 of main, a stage that returns None ends main at once: the
\* next position is the return, the files written before are all still there with
\* their content (but for the file the stage itself has written), and once
\* returned main calls no stage of step 6 or 7 and leaves the position only when a
\* new run starts with the download.
C19_ReturnOnNone ==
    [][/\ (\E k \in 1..Len(EnrichAndBuild) : pc = EnrichAndBuild[k]) /\ ret'.kind = "None" =>
           /\ pc' = "returned"
           /\ fs'.raw = fs.raw
           /\ DOMAIN fs'.processed = DOMAIN fs.processed
           /\ \A n \in DOMAIN fs.processed :
                  fs'.processed[n] # fs.processed[n] =>
                      (ret'.op = "fill_races_distance_km" /\ n = "races_cleaned.csv")
       /\ pc = "returned" => pc' \in {"returned", "step2"}]_vars

\* main has returned at step 7.4, the sprint table missing from the dataset: the
\* tables of steps 7.2 and 7.3 exist, those of 7.4 to 7.6 do not
C19_Witness ==
    /\ pc = "returned"
    /\ ret.op = "build_sprint_performance" /\ ret.kind = "None"
    /\ FileExists(fs, "processed", "drivers_performance.csv")
    /\ FileExists(fs, "processed", "constructors_performance.csv")
    /\ ~FileExists(fs, "processed", "sprint_performance.csv")
    /\ ~FileExists(fs, "processed", "qualifying_performance.csv")
    /\ ~FileExists(fs, "processed", "circuits_performance.csv")

\* whether the status of a result is a DNF status: its text is not classified no_dnf
IsDnfStatus(f, row) ==
    classify_mech_crash_other(Lookup(f.raw["status.csv"], "statusId", row.statusId, "status"))
        # "no_dnf"

\* C20: dnf_count of a row of circuits_performance is the number of results of that
\* driver on that circuit whose status is a DNF status, and total_dnf of a row of
\* constructors_performance is the number of results of that constructor whose
\* status is a DNF status; a finisher classified a lap down is not in the count.
C20_DnfCountsDnfStatuses ==
    (ret.kind = "path" /\ FileExists(fs, "raw", "status.csv")) =>
        LET results == fs.processed["results_cleaned.csv"].rows
        IN  /\ ret.op = "build_driver_circuits_performance" =>
                   LET t == fs.processed["circuits_performance.csv"]
                       races_df == fs.processed["races_cleaned.csv"]
                   IN  \A k \in 1..Len(t.rows) :
                           t.rows[k].dnf_count =
                               Cardinality({x \in 1..Len(results) :
                                   /\ results[x].driverId = t.rows[k].driverId
                                   /\ Lookup(races_df, "raceId", results[x].raceId, "circuitId")
                                          = t.rows[k].circuitId
                                   /\ IsDnfStatus(fs, results[x])})
            /\ ret.op = "add_constructors_reliability_features" =>
                   LET t == fs.processed["constructors_performance.csv"]
                   IN  \A k \in 1..Len(t.rows) :
                           t.rows[k].total_dnf =
                               Cardinality({x \in 1..Len(results) :
                                   /\ results[x].constructorId = t.rows[k].constructorId
                                   /\ IsDnfStatus(fs, results[x])})

\* finished_races <= races_count and 0 <= finish_rate <= 1 in every row of a table
IsRate(t) ==
    \A k \in 1..Len(t.rows) :
        /\ t.rows[k].finished_races <= t.rows[k].races_count
        /\ \/ isna(t.rows[k].finish_rate)
           \/ /\ 0 <= t.rows[k].finish_rate.num
              /\ t.rows[k].finish_rate.num <= t.rows[k].finish_rate.den

\* C21: in every row of constructors_performance, drivers_performance and
\* circuits_performance just built, finished_races is at most races_count, so that
\* finish_rate lies between 0 and 1, also when a constructor has several cars in
\* the same race.
C21_FinishRateIsRate ==
    ret.kind = "path" =>
        /\ ret.op = "build_constructors_performance" =>
               IsRate(fs.processed["constructors_performance.csv"])
        /\ ret.op = "build_drivers_performance" =>
               IsRate(fs.processed["drivers_performance.csv"])
        /\ ret.op = "build_driver_circuits_performance" =>
               IsRate(fs.processed["circuits_performance.csv"])

\* the raw files the filters of steps 4 and 5 read
FilteredRawFiles ==
    {race_tables[k][2] : k \in 1..Len(race_tables)}
        \cup {"circuits.csv", "constructors.csv", "drivers.csv", "seasons.csv", "status.csv"}

C23_ConstructorsNamed ==
    /\ (/\ pc = "step6_1a"
        /\ FileExists(fs, "raw", "results.csv")
        /\ FileExists(fs, "raw", "constructor_results.csv")
        /\ FileExists(fs, "raw", "constructors.csv")) =>
           \A c \in Col(fs.processed["results_cleaned.csv"], "constructorId")
                       \cap Col(fs.raw["constructors.csv"], "constructorId") :
               c \in Col(fs.processed["constructors_cleaned.csv"], "constructorId")
    /\ (pc = "step7_4" /\ ret.op = "build_constructors_performance" /\ ret.kind = "path") =>
           \A k \in 1..Len(fs.processed["constructors_performance.csv"].rows) :
               ~isna(fs.processed["constructors_performance.csv"].rows[k].name)

\* C24: in every row of constructors_performance after
\* add_constructors_reliability_features, mechanical_dnf + crash_dnf is at most
\* total_dnf, finished_races + total_dnf is the number of rows the constructor has
\* in results_cleaned, and reliability_rate lies between 0 and 1.
C24_ReliabilityCounts ==
    (ret.op = "add_constructors_reliability_features" /\ ret.kind = "path") =>
        LET t == fs.processed["constructors_performance.csv"]
            results_df == fs.processed["results_cleaned.csv"]
        IN  \A k \in 1..Len(t.rows) :
                /\ t.rows[k].total_dnf # NA
                /\ t.rows[k].mechanical_dnf + t.rows[k].crash_dnf <= t.rows[k].total_dnf
                /\ t.rows[k].finished_races + t.rows[k].total_dnf
                       = Len(GroupRows(results_df, "constructorId", t.rows[k].constructorId))
                /\ \/ isna(t.rows[k].reliability_rate)
                   \/ /\ 0 <= t.rows[k].reliability_rate.num
                      /\ t.rows[k].reliability_rate.num <= t.rows[k].reliability_rate.den

====
